---- MODULE Spec2Model ----
(***************************************************************************)
(* A model of the `colored` crate: the Color and Style primitives, the     *)
(* process-wide colorization policy (control.rs) and the ColoredString     *)
(* composer (lib.rs).                                                      *)
(*                                                                         *)
(* Strings are sequences of one-byte tokens: "a" is <<"a">>, the escape    *)
(* byte 0x1B is the token ESC, and a two-byte UTF-8 character is two       *)
(* tokens, so that offsets are byte offsets as in the Rust code.           *)
(***************************************************************************)
EXTENDS Integers, Sequences, FiniteSets, TLC

VARIABLES
    env,        \* the process environment: CLICOLOR, CLICOLOR_FORCE, NO_COLOR
    tty,        \* whether standard output is an interactive terminal
    pol,        \* control::SHOULD_COLORIZE: the LazyLock's state and the ShouldColorize in it
    initCount,  \* how many times ShouldColorize::from_env has run
    ret,        \* the result of the last sequential should_colorize() call
    lastCall,   \* the last override call made: "none", "set_true", "set_false", "unset"
    cs,         \* the ColoredString being built
    hist,       \* what the builder calls made since construction or the last clear() asked for
    out,        \* the String the last rendering produced
    phase,      \* where the nesting program is: "inner", "fmt", "outer", "done"
    pc,         \* each thread's position inside the call it runs
    loc,        \* each thread's locals: the call's argument, the flag it loaded, its result
    obs,        \* per reader: the override calls that overlapped its current call
    calc        \* a call of a function of color.rs: its arguments, then also its result

envVars == <<env, tty>>
polVars == <<pol, initCount>>
seqVars == <<ret, lastCall>>
csVars == <<cs, hist>>
renderVars == <<out, phase>>
thrVars == <<pc, loc, obs>>
calcVars == <<calc>>
vars == <<env, tty, pol, initCount, ret, lastCall, cs, hist, out, phase, pc, loc, obs, calc>>

----------------------------------------------------------------------------
(* Strings                                                                 *)

ESC == "ESC"

DIGITS == <<"0", "1", "2", "3", "4", "5", "6", "7", "8", "9">>

\* format!("{n}") of a u8: its decimal digits, most significant first
RECURSIVE ToDec(_)
ToDec(n) == IF n < 10 THEN <<DIGITS[n + 1]>> ELSE ToDec(n \div 10) \o <<DIGITS[(n % 10) + 1]>>

\* s[from..] with a 0-based byte offset
Skip(s, from) == SubSeq(s, from + 1, Len(s))

\* whether pat occurs in s at the 0-based offset i
OccursAt(s, pat, i) == i + Len(pat) <= Len(s) /\ SubSeq(s, i + 1, i + Len(pat)) = pat

\* the 0-based offset of the first occurrence of pat in s at or after offset i, or -1
NextMatch(s, pat, i) ==
    LET found == {j \in i..(Len(s) - Len(pat)) : OccursAt(s, pat, j)}
    IN IF found = {} THEN -1 ELSE CHOOSE j \in found : \A k \in found : j <= k

\* str::match_indices(pat).map(|(idx, _)| idx): the 0-based offsets of the
\* non-overlapping occurrences of pat, left to right, searching from offset i
RECURSIVE MatchIndices(_, _, _)
MatchIndices(s, pat, i) ==
    LET j == NextMatch(s, pat, i)
    IN IF j < 0 THEN <<>> ELSE <<j>> \o MatchIndices(s, pat, j + Len(pat))

UPPER == <<"A", "B", "C", "D", "E", "F", "G", "H", "I", "J", "K", "L", "M",
           "N", "O", "P", "Q", "R", "S", "T", "U", "V", "W", "X", "Y", "Z">>
LOWER == <<"a", "b", "c", "d", "e", "f", "g", "h", "i", "j", "k", "l", "m",
           "n", "o", "p", "q", "r", "s", "t", "u", "v", "w", "x", "y", "z">>

\* the index of ch in the sequence of characters t, or 0
IndexIn(t, ch) == IF \E i \in 1..Len(t) : t[i] = ch THEN CHOOSE i \in 1..Len(t) : t[i] = ch ELSE 0

\* str::to_lowercase, on ASCII text
to_lowercase(s) == [i \in 1..Len(s) |-> IF IndexIn(UPPER, s[i]) > 0 THEN LOWER[IndexIn(UPPER, s[i])] ELSE s[i]]

\* char::is_whitespace, for the whitespace the model's texts hold
WHITESPACE == {" ", "\t", "\n"}

\* str::trim: leading and trailing whitespace removed
trim(s) ==
    LET keep == {i \in 1..Len(s) : s[i] \notin WHITESPACE}
    IN IF keep = {} THEN <<>>
       ELSE SubSeq(s, CHOOSE i \in keep : \A j \in keep : i <= j,
                      CHOOSE i \in keep : \A j \in keep : j <= i)

\* str::as_bytes: the ASCII code of a character
ByteOf(ch) ==
    CASE IndexIn(DIGITS, ch) > 0 -> 47 + IndexIn(DIGITS, ch)
      [] IndexIn(UPPER, ch) > 0 -> 64 + IndexIn(UPPER, ch)
      [] IndexIn(LOWER, ch) > 0 -> 96 + IndexIn(LOWER, ch)
      [] ch = " " -> 32
      [] ch = "#" -> 35
      [] ch = "-" -> 45
      [] OTHER -> 0

\* str::strip_prefix(pat): whether s starts with pat, and the rest if so
strip_prefix(s, pat) ==
    IF OccursAt(s, pat, 0) THEN [some |-> TRUE, rest |-> Skip(s, Len(pat))]
    ELSE [some |-> FALSE, rest |-> <<>>]

\* what a String holds after a panic (no String holds this byte otherwise)
PANIC == <<"panic">>

\* String::insert(idx, ch): it panics unless idx <= len (idx is a char boundary here)
Insert(s, idx, ch) == IF idx > Len(s) THEN PANIC ELSE SubSeq(s, 1, idx) \o <<ch>> \o Skip(s, idx)

\* [&str]::join(sep)
RECURSIVE Join(_, _)
Join(parts, sep) ==
    IF parts = <<>> THEN <<>>
    ELSE IF Len(parts) = 1 THEN parts[1]
    ELSE parts[1] \o sep \o Join(Tail(parts), sep)

----------------------------------------------------------------------------
(* style.rs                                                                *)

CLEARV == 0
BOLD == 1
UNDERLINE == 2
REVERSED == 4
ITALIC == 8
BLINK == 16
HIDDEN == 32
DIMMED == 64
STRIKETHROUGH == 128

\* mutant: the table is in the order of the codes
STYLES_ByCode == <<
    <<BOLD, "Bold">>,
    <<DIMMED, "Dimmed">>,
    <<ITALIC, "Italic">>,
    <<UNDERLINE, "Underline">>,
    <<BLINK, "Blink">>,
    <<REVERSED, "Reversed">>,
    <<HIDDEN, "Hidden">>,
    <<STRIKETHROUGH, "Strikethrough">> >>

STYLES == <<
    <<BOLD, "Bold">>,
    <<DIMMED, "Dimmed">>,
    <<UNDERLINE, "Underline">>,
    <<REVERSED, "Reversed">>,
    <<ITALIC, "Italic">>,
    <<BLINK, "Blink">>,
    <<HIDDEN, "Hidden">>,
    <<STRIKETHROUGH, "Strikethrough">> >>

Styles == {"Clear", "Bold", "Dimmed", "Underline", "Reversed", "Italic", "Blink", "Hidden",
           "Strikethrough"}

\* u8 bitwise and / or
RECURSIVE BitAnd(_, _)
BitAnd(a, b) ==
    IF a = 0 \/ b = 0 THEN 0
    ELSE (IF a % 2 = 1 /\ b % 2 = 1 THEN 1 ELSE 0) + 2 * BitAnd(a \div 2, b \div 2)

RECURSIVE BitOr(_, _)
BitOr(a, b) ==
    IF a = 0 THEN b
    ELSE IF b = 0 THEN a
    ELSE (IF a % 2 = 1 \/ b % 2 = 1 THEN 1 ELSE 0) + 2 * BitOr(a \div 2, b \div 2)

Styles_to_str(s) ==
    CASE s = "Clear" -> <<>>
      [] s = "Bold" -> <<"1">>
      [] s = "Dimmed" -> <<"2">>
      [] s = "Italic" -> <<"3">>
      [] s = "Underline" -> <<"4">>
      [] s = "Blink" -> <<"5">>
      [] s = "Reversed" -> <<"7">>
      [] s = "Hidden" -> <<"8">>
      [] s = "Strikethrough" -> <<"9">>

\* mutant: Dimmed's mask holds the bit of Bold too
Styles_to_u8_Overlap(s) ==
    CASE s = "Clear" -> CLEARV
      [] s = "Bold" -> BOLD
      [] s = "Dimmed" -> DIMMED + BOLD
      [] s = "Italic" -> ITALIC
      [] s = "Underline" -> UNDERLINE
      [] s = "Blink" -> BLINK
      [] s = "Reversed" -> REVERSED
      [] s = "Hidden" -> HIDDEN
      [] s = "Strikethrough" -> STRIKETHROUGH

Styles_to_u8(s) ==
    CASE s = "Clear" -> CLEARV
      [] s = "Bold" -> BOLD
      [] s = "Dimmed" -> DIMMED
      [] s = "Italic" -> ITALIC
      [] s = "Underline" -> UNDERLINE
      [] s = "Blink" -> BLINK
      [] s = "Reversed" -> REVERSED
      [] s = "Hidden" -> HIDDEN
      [] s = "Strikethrough" -> STRIKETHROUGH

\* STYLES.iter().filter(|(mask, _)| 0 != (u & mask)).map(|&(_, value)| value), from entry i on
RECURSIVE FilterStyles(_, _)
FilterStyles(u, i) ==
    IF i > Len(STYLES) THEN <<>>
    ELSE (IF BitAnd(u, STYLES[i][1]) # 0 THEN <<STYLES[i][2]>> ELSE <<>>) \o FilterStyles(u, i + 1)

\* Styles::from_u8(u).unwrap_or_default(): None (here the empty list) when u is CLEARV
\* or no mask matches, else the matching styles in STYLES order
Styles_from_u8(u) == IF u = CLEARV THEN <<>> ELSE FilterStyles(u, 1)

\* Option<Vec<Styles>>
NoStyles == [some |-> FALSE, val |-> <<>>]
SomeStyles(res) == [some |-> TRUE, val |-> res]

\* Styles::from_u8
from_u8(u) ==
    IF u = CLEARV THEN NoStyles
    ELSE LET res == FilterStyles(u, 1)
         IN IF res = <<>> THEN NoStyles ELSE SomeStyles(res)

Style_contains(self, style) == BitAnd(self, Styles_to_u8(style)) = Styles_to_u8(style)

Style_to_str(self) ==
    LET styles == Styles_from_u8(self)
    IN Join([i \in 1..Len(styles) |-> Styles_to_str(styles[i])], <<";">>)

\* mutant: the new attribute replaces the flags instead of being or-ed in
Style_add_Overwrite(self, two) == Styles_to_u8(two)

Style_add(self, two) == BitOr(self, Styles_to_u8(two))

----------------------------------------------------------------------------
(* color.rs                                                                *)

NamedColors == {"Black", "Red", "Green", "Yellow", "Blue", "Magenta", "Cyan", "White",
                "BrightBlack", "BrightRed", "BrightGreen", "BrightYellow", "BrightBlue",
                "BrightMagenta", "BrightCyan", "BrightWhite"}

\* a Color value: a named variant, or TrueColor { r, g, b }
Named(n) == [tag |-> n, r |-> 0, g |-> 0, b |-> 0]
TrueColor(r, g, b) == [tag |-> "TrueColor", r |-> r, g |-> g, b |-> b]

\* Option<Color>::None
NoColor == [tag |-> "None", r |-> 0, g |-> 0, b |-> 0]

to_fg_str(c) ==
    CASE c.tag = "Black" -> <<"3", "0">>
      [] c.tag = "Red" -> <<"3", "1">>
      [] c.tag = "Green" -> <<"3", "2">>
      [] c.tag = "Yellow" -> <<"3", "3">>
      [] c.tag = "Blue" -> <<"3", "4">>
      [] c.tag = "Magenta" -> <<"3", "5">>
      [] c.tag = "Cyan" -> <<"3", "6">>
      [] c.tag = "White" -> <<"3", "7">>
      [] c.tag = "BrightBlack" -> <<"9", "0">>
      [] c.tag = "BrightRed" -> <<"9", "1">>
      [] c.tag = "BrightGreen" -> <<"9", "2">>
      [] c.tag = "BrightYellow" -> <<"9", "3">>
      [] c.tag = "BrightBlue" -> <<"9", "4">>
      [] c.tag = "BrightMagenta" -> <<"9", "5">>
      [] c.tag = "BrightCyan" -> <<"9", "6">>
      [] c.tag = "BrightWhite" -> <<"9", "7">>
      [] c.tag = "TrueColor" ->
            <<"3", "8", ";", "2", ";">> \o ToDec(c.r) \o <<";">> \o ToDec(c.g) \o <<";">> \o ToDec(c.b)

\* mutant: the background code is the foreground code
to_bg_str_AsFg(c) == to_fg_str(c)

to_bg_str(c) ==
    CASE c.tag = "Black" -> <<"4", "0">>
      [] c.tag = "Red" -> <<"4", "1">>
      [] c.tag = "Green" -> <<"4", "2">>
      [] c.tag = "Yellow" -> <<"4", "3">>
      [] c.tag = "Blue" -> <<"4", "4">>
      [] c.tag = "Magenta" -> <<"4", "5">>
      [] c.tag = "Cyan" -> <<"4", "6">>
      [] c.tag = "White" -> <<"4", "7">>
      [] c.tag = "BrightBlack" -> <<"1", "0", "0">>
      [] c.tag = "BrightRed" -> <<"1", "0", "1">>
      [] c.tag = "BrightGreen" -> <<"1", "0", "2">>
      [] c.tag = "BrightYellow" -> <<"1", "0", "3">>
      [] c.tag = "BrightBlue" -> <<"1", "0", "4">>
      [] c.tag = "BrightMagenta" -> <<"1", "0", "5">>
      [] c.tag = "BrightCyan" -> <<"1", "0", "6">>
      [] c.tag = "BrightWhite" -> <<"1", "0", "7">>
      [] c.tag = "TrueColor" ->
            <<"4", "8", ";", "2", ";">> \o ToDec(c.r) \o <<";">> \o ToDec(c.g) \o <<";">> \o ToDec(c.b)


\* Result<Color, E> and Option<Color>: ok with a colour, or not ok with the error value
NoErr == [kind |-> "none", text |-> <<>>]
OkColor(c) == [ok |-> TRUE, val |-> c, err |-> NoErr]
ErrColor(e) == [ok |-> FALSE, val |-> NoColor, err |-> e]

\* the error type of FromStr for Color: (), which holds nothing
UnitErr == [kind |-> "()", text |-> <<>>]

\* mutant: the name is matched as it is written
from_str_CaseSensitive(src) ==
    LET key == trim(src)
    IN CASE key = <<"b", "l", "a", "c", "k">> -> OkColor(Named("Black"))
         [] key = <<"r", "e", "d">> -> OkColor(Named("Red"))
         [] key = <<"g", "r", "e", "e", "n">> -> OkColor(Named("Green"))
         [] key = <<"y", "e", "l", "l", "o", "w">> -> OkColor(Named("Yellow"))
         [] key = <<"b", "l", "u", "e">> -> OkColor(Named("Blue"))
         [] key = <<"m", "a", "g", "e", "n", "t", "a">> \/ key = <<"p", "u", "r", "p", "l", "e">> -> OkColor(Named("Magenta"))
         [] key = <<"c", "y", "a", "n">> -> OkColor(Named("Cyan"))
         [] key = <<"w", "h", "i", "t", "e">> -> OkColor(Named("White"))
         [] key = <<"b", "r", "i", "g", "h", "t", " ", "b", "l", "a", "c", "k">> -> OkColor(Named("BrightBlack"))
         [] key = <<"b", "r", "i", "g", "h", "t", " ", "r", "e", "d">> -> OkColor(Named("BrightRed"))
         [] key = <<"b", "r", "i", "g", "h", "t", " ", "g", "r", "e", "e", "n">> -> OkColor(Named("BrightGreen"))
         [] key = <<"b", "r", "i", "g", "h", "t", " ", "y", "e", "l", "l", "o", "w">> -> OkColor(Named("BrightYellow"))
         [] key = <<"b", "r", "i", "g", "h", "t", " ", "b", "l", "u", "e">> -> OkColor(Named("BrightBlue"))
         [] key = <<"b", "r", "i", "g", "h", "t", " ", "m", "a", "g", "e", "n", "t", "a">> -> OkColor(Named("BrightMagenta"))
         [] key = <<"b", "r", "i", "g", "h", "t", " ", "c", "y", "a", "n">> -> OkColor(Named("BrightCyan"))
         [] key = <<"b", "r", "i", "g", "h", "t", " ", "w", "h", "i", "t", "e">> -> OkColor(Named("BrightWhite"))
         [] OTHER -> ErrColor(UnitErr)

\* impl FromStr for Color
from_str(src) ==
    LET key == trim(to_lowercase(src))
    IN CASE key = <<"b", "l", "a", "c", "k">> -> OkColor(Named("Black"))
         [] key = <<"r", "e", "d">> -> OkColor(Named("Red"))
         [] key = <<"g", "r", "e", "e", "n">> -> OkColor(Named("Green"))
         [] key = <<"y", "e", "l", "l", "o", "w">> -> OkColor(Named("Yellow"))
         [] key = <<"b", "l", "u", "e">> -> OkColor(Named("Blue"))
         [] key = <<"m", "a", "g", "e", "n", "t", "a">> \/ key = <<"p", "u", "r", "p", "l", "e">> -> OkColor(Named("Magenta"))
         [] key = <<"c", "y", "a", "n">> -> OkColor(Named("Cyan"))
         [] key = <<"w", "h", "i", "t", "e">> -> OkColor(Named("White"))
         [] key = <<"b", "r", "i", "g", "h", "t", " ", "b", "l", "a", "c", "k">> -> OkColor(Named("BrightBlack"))
         [] key = <<"b", "r", "i", "g", "h", "t", " ", "r", "e", "d">> -> OkColor(Named("BrightRed"))
         [] key = <<"b", "r", "i", "g", "h", "t", " ", "g", "r", "e", "e", "n">> -> OkColor(Named("BrightGreen"))
         [] key = <<"b", "r", "i", "g", "h", "t", " ", "y", "e", "l", "l", "o", "w">> -> OkColor(Named("BrightYellow"))
         [] key = <<"b", "r", "i", "g", "h", "t", " ", "b", "l", "u", "e">> -> OkColor(Named("BrightBlue"))
         [] key = <<"b", "r", "i", "g", "h", "t", " ", "m", "a", "g", "e", "n", "t", "a">> -> OkColor(Named("BrightMagenta"))
         [] key = <<"b", "r", "i", "g", "h", "t", " ", "c", "y", "a", "n">> -> OkColor(Named("BrightCyan"))
         [] key = <<"b", "r", "i", "g", "h", "t", " ", "w", "h", "i", "t", "e">> -> OkColor(Named("BrightWhite"))
         [] OTHER -> ErrColor(UnitErr)

\* str::split(sep).collect(): the pieces of s between the occurrences of the character sep
RECURSIVE Split(_, _)
Split(s, sep) ==
    LET j == NextMatch(s, <<sep>>, 0)
    IN IF j < 0 THEN <<s>> ELSE <<SubSeq(s, 1, j)>> \o Split(Skip(s, j + 1), sep)

\* the number a text of decimal digits writes
RECURSIVE FromDec(_)
FromDec(s) ==
    IF s = <<>> THEN 0 ELSE FromDec(SubSeq(s, 1, Len(s) - 1)) * 10 + (IndexIn(DIGITS, s[Len(s)]) - 1)

\* mutant: the component is parsed as an i8
parse_u8_Signed(s) ==
    LET digits == IF Len(s) > 0 /\ s[1] \in {"+", "-"} THEN Tail(s) ELSE s
        ok == Len(digits) > 0 /\ (\A i \in 1..Len(digits) : IndexIn(DIGITS, digits[i]) > 0) /\ FromDec(digits) <= 127
    IN [ok |-> ok, val |-> IF ok THEN FromDec(digits) ELSE 0]

\* str::parse::<u8>().ok(): an optional '+', then one decimal digit or more, of value 255 at most
parse_u8(s) ==
    LET digits == IF Len(s) > 0 /\ s[1] = "+" THEN Tail(s) ELSE s
        ok == Len(digits) > 0 /\ (\A i \in 1..Len(digits) : IndexIn(DIGITS, digits[i]) > 0) /\ FromDec(digits) <= 255
    IN [ok |-> ok, val |-> IF ok THEN FromDec(digits) ELSE 0]

\* Option<Color>: Some(c) is OkColor(c), None is an ErrColor that holds no error
None == ErrColor(NoErr)

from_fg_str(s) ==
    CASE s = <<"3", "0">> -> OkColor(Named("Black"))
      [] s = <<"3", "1">> -> OkColor(Named("Red"))
      [] s = <<"3", "2">> -> OkColor(Named("Green"))
      [] s = <<"3", "3">> -> OkColor(Named("Yellow"))
      [] s = <<"3", "4">> -> OkColor(Named("Blue"))
      [] s = <<"3", "5">> -> OkColor(Named("Magenta"))
      [] s = <<"3", "6">> -> OkColor(Named("Cyan"))
      [] s = <<"3", "7">> -> OkColor(Named("White"))
      [] s = <<"9", "0">> -> OkColor(Named("BrightBlack"))
      [] s = <<"9", "1">> -> OkColor(Named("BrightRed"))
      [] s = <<"9", "2">> -> OkColor(Named("BrightGreen"))
      [] s = <<"9", "3">> -> OkColor(Named("BrightYellow"))
      [] s = <<"9", "4">> -> OkColor(Named("BrightBlue"))
      [] s = <<"9", "5">> -> OkColor(Named("BrightMagenta"))
      [] s = <<"9", "6">> -> OkColor(Named("BrightCyan"))
      [] s = <<"9", "7">> -> OkColor(Named("BrightWhite"))
      [] OTHER ->
            IF OccursAt(s, <<"3", "8", ";", "2", ";">>, 0)
            THEN LET it == Split(s, ";")
                 IN IF Len(it) < 5 THEN None
                    ELSE IF ~parse_u8(it[3]).ok \/ ~parse_u8(it[4]).ok \/ ~parse_u8(it[5]).ok THEN None
                    ELSE OkColor(TrueColor(parse_u8(it[3]).val, parse_u8(it[4]).val, parse_u8(it[5]).val))
            ELSE None

\* Color::to_hex_array
to_hex_array(c) ==
    CASE c.tag = "Black" -> <<0, 0, 0>>
      [] c.tag = "Red" -> <<255, 0, 0>>
      [] c.tag = "Green" -> <<0, 128, 0>>
      [] c.tag = "Blue" -> <<0, 0, 255>>
      [] c.tag = "Yellow" -> <<255, 255, 0>>
      [] c.tag = "Magenta" -> <<255, 0, 255>>
      [] c.tag = "Cyan" -> <<0, 255, 255>>
      [] c.tag = "White" \/ c.tag = "BrightWhite" -> <<255, 255, 255>>
      [] c.tag = "BrightBlack" -> <<34, 32, 36>>
      [] c.tag = "BrightRed" -> <<255, 22, 12>>
      [] c.tag = "BrightGreen" -> <<50, 205, 50>>
      [] c.tag = "BrightBlue" -> <<173, 216, 230>>
      [] c.tag = "BrightYellow" -> <<255, 255, 224>>
      [] c.tag = "BrightMagenta" -> <<255, 0, 205>>
      [] c.tag = "BrightCyan" -> <<224, 255, 255>>
      [] c.tag = "TrueColor" -> <<c.r, c.g, c.b>>

\* <[u8; 3] as Ord>::cmp: the arrays are compared element by element, the first
\* difference deciding
RECURSIVE array_cmp(_, _)
array_cmp(x, y) ==
    IF x = <<>> THEN "Equal"
    ELSE IF x[1] < y[1] THEN "Less"
    ELSE IF x[1] > y[1] THEN "Greater"
    ELSE array_cmp(Tail(x), Tail(y))

\* #[derive(PartialEq, Eq)]: the same variant, with the same fields
eq(self, other) == self = other

\* mutant: the colours are compared by their red components
cmp_RedOnly(self, other) == array_cmp(<<to_hex_array(self)[1]>>, <<to_hex_array(other)[1]>>)

\* <Color as Ord>::cmp
cmp(self, other) == array_cmp(to_hex_array(self), to_hex_array(other))

\* <Color as PartialOrd>::partial_cmp
partial_cmp(self, other) == [some |-> TRUE, val |-> cmp(self, other)]

HEXLOWER == <<"0", "1", "2", "3", "4", "5", "6", "7", "8", "9", "a", "b", "c", "d", "e", "f">>

\* format!("{x:02x}") of a u8
Hex02(x) == <<HEXLOWER[(x \div 16) + 1], HEXLOWER[(x % 16) + 1]>>

\* Color::to_hex
to_hex(c) ==
    LET arr == to_hex_array(c)
    IN Hex02(arr[1]) \o Hex02(arr[2]) \o Hex02(arr[3])

\* mutant: the lower-case digits a to f are not taken as digits
hex_val_NoLower(ch) ==
    IF 48 <= ch /\ ch <= 57 THEN ch - 48
    ELSE IF 65 <= ch /\ ch <= 70 THEN ch - 55
    ELSE 0

\* hex_val, on a byte
hex_val(ch) ==
    IF 48 <= ch /\ ch <= 57 THEN ch - 48
    ELSE IF 65 <= ch /\ ch <= 70 THEN ch - 55
    ELSE IF 97 <= ch /\ ch <= 102 THEN ch - 87
    ELSE 0

\* hex_chars_to_u8, on two bytes, in u8 arithmetic
hex_chars_to_u8(ch0, ch1) == BitOr((BitOr(0, hex_val(ch0)) * 16) % 256, hex_val(ch1))

\* parse_hex, which from_hex calls on 6-byte strings only: chunks(2) gives three pairs
parse_hex(color) ==
    [some |-> Len(color) >= 6,
     r |-> hex_chars_to_u8(ByteOf(color[1]), ByteOf(color[2])),
     g |-> hex_chars_to_u8(ByteOf(color[3]), ByteOf(color[4])),
     b |-> hex_chars_to_u8(ByteOf(color[5]), ByteOf(color[6]))]

\* the text of from_hex's error, after the input
INVALID_COLOR_MSG == <<" is an invalid color and is unable to be parsed">>

\* io::Error::new(io::ErrorKind::InvalidInput, message)
io_Error(kind, message) == [kind |-> kind, text |-> message]

\* if_6!: the argument if it is 6 bytes long
if_6(c) == [some |-> Len(c) = 6, val |-> c]

\* Color::from_hex
from_hex(color) ==
    LET hex == strip_prefix(color, <<"0", "x">>)
        hash == strip_prefix(color, <<"#">>)
        result == IF hex.some THEN if_6(hex.rest)
                  ELSE IF hash.some THEN if_6(hash.rest)
                  ELSE if_6(color)
    IN IF result.some /\ parse_hex(result.val).some
       THEN OkColor(TrueColor(parse_hex(result.val).r, parse_hex(result.val).g, parse_hex(result.val).b))
       ELSE ErrColor(io_Error("InvalidInput", color \o INVALID_COLOR_MSG))

\* Result::unwrap_or
unwrap_or(res, default) == IF res.ok THEN res.val ELSE default

\* impl From<&str> for Color, impl From<String> for Color
Color_from(src) == unwrap_or(from_str(src), Named("White"))

----------------------------------------------------------------------------
(* control.rs                                                              *)

\* Option<bool>
Some(b) == [some |-> TRUE, val |-> b]
NoneBool == [some |-> FALSE, val |-> FALSE]

\* Result<String, env::VarError>, as env::var returns it
Ok(s) == [ok |-> TRUE, val |-> s]
NotPresent == [ok |-> FALSE, val |-> "NotPresent"]
NotUnicode == [ok |-> FALSE, val |-> "NotUnicode"]

\* impl Default for ShouldColorize
ShouldColorize_default ==
    [clicolor |-> TRUE, clicolor_force |-> NoneBool,
     has_manual_override |-> FALSE, manual_override |-> FALSE]

normalize_env(env_res) == IF env_res.ok THEN Some(env_res.val # "0") ELSE NoneBool

\* mutant: NO_COLOR is looked at before CLICOLOR_FORCE
resolve_clicolor_force_NoColorFirst(no_color, clicolor_force) ==
    IF normalize_env(no_color).some THEN Some(FALSE)
    ELSE IF normalize_env(clicolor_force) = Some(TRUE) THEN Some(TRUE)
    ELSE NoneBool

resolve_clicolor_force(no_color, clicolor_force) ==
    IF normalize_env(clicolor_force) = Some(TRUE) THEN Some(TRUE)
    ELSE IF normalize_env(no_color).some THEN Some(FALSE)
    ELSE NoneBool

\* mutant: the terminal check is left out
from_env_NoTty(e, t) ==
    LET c == normalize_env(e.CLICOLOR)
    IN [ShouldColorize_default EXCEPT
          !.clicolor = (IF c.some THEN c.val ELSE TRUE),
          !.clicolor_force = resolve_clicolor_force(e.NO_COLOR, e.CLICOLOR_FORCE)]

\* ShouldColorize::from_env, reading the environment e and the terminal status t
from_env(e, t) ==
    LET c == normalize_env(e.CLICOLOR)
    IN [ShouldColorize_default EXCEPT
          !.clicolor = (IF c.some THEN c.val ELSE TRUE) /\ t,
          !.clicolor_force = resolve_clicolor_force(e.NO_COLOR, e.CLICOLOR_FORCE)]

\* mutant: clicolor_force is looked at before the manual override
should_colorize_ForceFirst(self) ==
    IF self.clicolor_force.some THEN self.clicolor_force.val
    ELSE IF self.has_manual_override THEN self.manual_override
    ELSE self.clicolor

should_colorize(self) ==
    IF self.has_manual_override THEN self.manual_override
    ELSE IF self.clicolor_force.some THEN self.clicolor_force.val
    ELSE self.clicolor

\* set_override's two atomic stores, in program order
set_override_store1(self, override_colorize) == [self EXCEPT !.has_manual_override = TRUE]
set_override_store2(self, override_colorize) == [self EXCEPT !.manual_override = override_colorize]

set_override(self, override_colorize) ==
    set_override_store2(set_override_store1(self, override_colorize), override_colorize)

\* mutant: the stored value is cleared along with the enabled flag
unset_override_ClearsBoth(self) == [self EXCEPT !.has_manual_override = FALSE, !.manual_override = FALSE]

\* mutant: the enabled flag is flipped
unset_override_Flips(self) == [self EXCEPT !.has_manual_override = ~@]

\* mutant: the stored value is cleared, the enabled flag is left as it was
unset_override_ClearsValue(self) == [self EXCEPT !.manual_override = FALSE]

unset_override(self) == [self EXCEPT !.has_manual_override = FALSE]

\* SHOULD_COLORIZE: a LazyLock, "Uninit" until its first access, "Running" while the
\* initializer runs, then "Complete" holding the ShouldColorize that from_env built
SHOULD_COLORIZE_new == [lazy |-> "Uninit", v |-> ShouldColorize_default]

\* a single-threaded access to SHOULD_COLORIZE: the first one runs from_env
Deref(p, e, t) == IF p.lazy = "Complete" THEN p ELSE [lazy |-> "Complete", v |-> from_env(e, t)]

----------------------------------------------------------------------------
(* lib.rs: ColoredString                                                   *)

RESET == <<ESC, "[", "0", "m">>

ColoredString_default == [input |-> <<>>, fgcolor |-> NoColor, bgcolor |-> NoColor, style |-> CLEARV]

\* impl From<&str> for ColoredString
From(s) == [ColoredString_default EXCEPT !.input = s]

\* mutant: clear drops the colours and keeps the flags
clear_KeepsFlags(self) == [self EXCEPT !.fgcolor = NoColor, !.bgcolor = NoColor]

\* mutant: the first foreground set is kept
color_FirstWins(self, c) == IF self.fgcolor = NoColor THEN [self EXCEPT !.fgcolor = c] ELSE self

\* impl Colorize for ColoredString
color(self, c) == [self EXCEPT !.fgcolor = c]
on_color(self, c) == [self EXCEPT !.bgcolor = c]
clear(self) == [ColoredString_default EXCEPT !.input = self.input]
normal(self) == clear(self)
bold(self) == [self EXCEPT !.style = Style_add(self.style, "Bold")]
dimmed(self) == [self EXCEPT !.style = Style_add(self.style, "Dimmed")]
italic(self) == [self EXCEPT !.style = Style_add(self.style, "Italic")]
underline(self) == [self EXCEPT !.style = Style_add(self.style, "Underline")]
blink(self) == [self EXCEPT !.style = Style_add(self.style, "Blink")]
reversed(self) == [self EXCEPT !.style = Style_add(self.style, "Reversed")]
reverse(self) == reversed(self)
hidden(self) == [self EXCEPT !.style = Style_add(self.style, "Hidden")]
strikethrough(self) == [self EXCEPT !.style = Style_add(self.style, "Strikethrough")]

\* Colorize's provided methods black() .. bright_white() and on_black() .. on_bright_white(),
\* for the variant n, on a ColoredString
named(self, n) == color(self, Named(n))
on_named(self, n) == on_color(self, Named(n))

\* impl Colorize for &str
str_color(s, c) == [ColoredString_default EXCEPT !.fgcolor = c, !.input = s]
str_on_color(s, c) == [ColoredString_default EXCEPT !.bgcolor = c, !.input = s]
str_clear(s) == [ColoredString_default EXCEPT !.input = s, !.style = CLEARV]
str_normal(s) == str_clear(s)
str_bold(s) == bold(From(s))
str_dimmed(s) == dimmed(From(s))
str_italic(s) == italic(From(s))
str_underline(s) == underline(From(s))
str_blink(s) == blink(From(s))
str_reversed(s) == reversed(From(s))
str_reverse(s) == str_reversed(s)
str_hidden(s) == hidden(From(s))
str_strikethrough(s) == strikethrough(From(s))

\* the provided methods black() .. on_bright_white() on a &str
str_named(s, n) == str_color(s, Named(n))
str_on_named(s, n) == str_on_color(s, Named(n))

\* mutant: the attributes are not looked at
is_plain_ColorsOnly(self) == self.bgcolor = NoColor /\ self.fgcolor = NoColor

is_plain(self) == self.bgcolor = NoColor /\ self.fgcolor = NoColor /\ self.style = CLEARV

\* has_colors (without the no-color feature), on the policy p that SHOULD_COLORIZE holds
has_colors(p) == should_colorize(p)

\* mutant: the foreground is written before the background
compute_style_FgFirst(self, p) ==
    IF ~has_colors(p) \/ is_plain(self) THEN <<>>
    ELSE LET res0 == <<ESC, "[">>
             wrote1 == self.style # CLEARV
             res1 == IF wrote1 THEN res0 \o Style_to_str(self.style) ELSE res0
             res2 == IF self.fgcolor # NoColor
                     THEN (IF wrote1 THEN res1 \o <<";">> ELSE res1) \o to_fg_str(self.fgcolor)
                     ELSE res1
             wrote2 == wrote1 \/ self.fgcolor # NoColor
             res3 == IF self.bgcolor # NoColor
                     THEN (IF wrote2 THEN res2 \o <<";">> ELSE res2) \o to_bg_str(self.bgcolor)
                     ELSE res2
         IN res3 \o <<"m">>

compute_style(self, p) ==
    IF ~has_colors(p) \/ is_plain(self) THEN <<>>
    ELSE LET res0 == <<ESC, "[">>
             wrote1 == self.style # CLEARV
             res1 == IF wrote1 THEN res0 \o Style_to_str(self.style) ELSE res0
             res2 == IF self.bgcolor # NoColor
                     THEN (IF wrote1 THEN res1 \o <<";">> ELSE res1) \o to_bg_str(self.bgcolor)
                     ELSE res1
             wrote2 == wrote1 \/ self.bgcolor # NoColor
             res3 == IF self.fgcolor # NoColor
                     THEN (IF wrote2 THEN res2 \o <<";">> ELSE res2) \o to_fg_str(self.fgcolor)
                     ELSE res2
         IN res3 \o <<"m">>

\* for cchar in style.chars() { input.insert(offset, cchar); offset += 1; }, from char k on
RECURSIVE InsertChars(_, _, _, _)
InsertChars(input, offset, style, k) ==
    IF k > Len(style) THEN input
    ELSE IF offset > Len(input) THEN PANIC
    ELSE InsertChars(Insert(input, offset, style[k]), offset + 1, style, k + 1)

\* mutant: the offsets are not shifted by what earlier matches inserted
RECURSIVE EscapeLoop_NoShift(_, _, _, _)
EscapeLoop_NoShift(input, matches, i, style) ==
    IF i > Len(matches) THEN input
    ELSE LET offset == matches[i] + Len(RESET)
         IN EscapeLoop_NoShift(InsertChars(input, offset, style, 1), matches, i + 1, style)

\* for (idx_in_matches, offset) in matches.into_iter().enumerate() { ... }, from match i on
RECURSIVE EscapeLoop(_, _, _, _)
EscapeLoop(input, matches, i, style) ==
    IF i > Len(matches) THEN input
    ELSE LET idx_in_matches == i - 1
             offset == matches[i] + Len(RESET) + idx_in_matches * Len(style)
         IN EscapeLoop(InsertChars(input, offset, style, 1), matches, i + 1, style)

\* mutant: the style is inserted after the first reset sequence only
escape_inner_reset_sequences_FirstOnly(self, p) ==
    IF ~has_colors(p) \/ is_plain(self) THEN self.input
    ELSE LET style == compute_style(self, p)
             matches == MatchIndices(self.input, RESET, 0)
         IN IF matches = <<>> THEN self.input
            ELSE EscapeLoop(self.input, <<matches[1]>>, 1, style)

escape_inner_reset_sequences(self, p) ==
    IF ~has_colors(p) \/ is_plain(self) THEN self.input
    ELSE LET style == compute_style(self, p)
             matches == MatchIndices(self.input, RESET, 0)
         IN IF matches = <<>> THEN self.input
            ELSE EscapeLoop(self.input, matches, 1, style)

\* mutant: the input is written as it is, its inner reset sequences not escaped
fmt_Unescaped(self, p) ==
    IF ~has_colors(p) \/ is_plain(self) THEN self.input
    ELSE compute_style(self, p) \o self.input \o RESET

\* impl fmt::Display for ColoredString, for "{}" (no width, no precision)
fmt(self, p) ==
    IF ~has_colors(p) \/ is_plain(self) THEN self.input
    ELSE LET escaped_input == escape_inner_reset_sequences(self, p)
         IN compute_style(self, p) \o escaped_input \o RESET

\* Option<usize>
NoneUsize == [some |-> FALSE, val |-> 0]
SomeUsize(n) == [some |-> TRUE, val |-> n]

\* the fmt::Formatter of "{:w.p}": its width and its precision, each given or not; the
\* fill is ' ' and the alignment is the default one
Formatter(width, precision) == [width |-> width, precision |-> precision]

Spaces(n) == [i \in 1..n |-> " "]

\* fmt::Formatter::pad, which <str as Display>::fmt calls: the text is cut to the
\* precision, in characters, and then filled up to the width, on its right
pad(s, f) ==
    LET t == IF f.precision.some /\ Len(s) > f.precision.val THEN SubSeq(s, 1, f.precision.val) ELSE s
    IN IF f.width.some /\ Len(t) < f.width.val THEN t \o Spaces(f.width.val - Len(t)) ELSE t

\* format!("{:w.p}", s) of a String
format_String(s, f) == pad(s, f)

\* mutant: the whole rendering goes through the formatter
fmt_Formatter_Whole(self, p, f) == pad(fmt(self, p), f)

\* impl fmt::Display for ColoredString, on a formatter with a width or a precision:
\* f.write_str(style), escaped_input.fmt(f), f.write_str(reset)
fmt_Formatter(self, p, f) ==
    IF ~has_colors(p) \/ is_plain(self) THEN pad(self.input, f)
    ELSE LET escaped_input == escape_inner_reset_sequences(self, p)
         IN compute_style(self, p) \o pad(escaped_input, f) \o RESET

----------------------------------------------------------------------------
(* The inputs the model draws from                                         *)

\* what env::var can return for one variable
EnvVals == {NotPresent, NotUnicode, Ok("0"), Ok("1")}
Envs == [CLICOLOR : EnvVals, CLICOLOR_FORCE : EnvVals, NO_COLOR : EnvVals]

\* an interactive session with none of the variables set
PlainEnv == [CLICOLOR |-> NotPresent, CLICOLOR_FORCE |-> NotPresent, NO_COLOR |-> NotPresent]

\* the threads of the concurrent specification: one calls the override functions,
\* the other asks should_colorize()
Writers == {"w"}
Readers == {"r"}
Threads == Writers \cup Readers

\* a thread's locals: the call it is in (op) and its argument, what it has loaded
\* (flag) and returned (res), the number of calls it has made, the environment
\* fields it found behind SHOULD_COLORIZE (seen), Display::fmt's escaped_input, and the
\* override calls the thread has made, in their order (made)
NoSeen == [some |-> FALSE, clicolor |-> TRUE, clicolor_force |-> NoneBool]
NoLocals == [op |-> "none", arg |-> FALSE, flag |-> FALSE, res |-> NoneBool, pre |-> FALSE,
             calls |-> 0, seen |-> NoSeen, escaped_input |-> <<>>, made |-> <<>>]

\* what ran while a reader's should_colorize() was running: how many override calls
\* (n), the kind and argument of the last one, and the decision in force before it
NoObs == [n |-> 0, kind |-> "none", pre |-> FALSE, v |-> FALSE]

\* the parts of the state a specification does not use
ThreadsIdle ==
    /\ pc = [t \in Threads |-> "idle"]
    /\ loc = [t \in Threads |-> NoLocals]
    /\ obs = [t \in Readers |-> NoObs]

NoHist == [fg |-> NoColor, bg |-> NoColor, attrs |-> {}, text |-> <<>>, fresh |-> TRUE]

ComposerIdle ==
    /\ cs = ColoredString_default
    /\ hist = NoHist
    /\ out = <<>>
    /\ phase = "inner"

SequentialIdle ==
    /\ ret = NoneBool
    /\ lastCall = "none"

\* the orderings not computed yet
NoOrd == [ab |-> "None", ba |-> "None", bc |-> "None", ac |-> "None", partial |-> [some |-> FALSE, val |-> "None"]]

\* a call of color.rs: the function called (op), its string argument (s), its colour
\* arguments (a, b, c), and the results: a Result or Option of a colour (rcol), a
\* string (rstr, rstr2), orderings (rord), a ColoredString (rcs); want is the variant the
\* name in s was written for ("None" for a name that is no colour's); f is the
\* formatter of a format! call; for a call of style.rs, self is the Style's flags,
\* added the attributes added to it, rstyles and rcontains the results
NoCalc == [op |-> "none", self |-> 0, added |-> {}, rstyles |-> [some |-> FALSE, val |-> <<>>], rcontains |-> {}, f |-> Formatter(NoneUsize, NoneUsize), kind |-> "none", s |-> <<>>, want |-> "None", a |-> NoColor, b |-> NoColor, c |-> NoColor,
           rcol |-> ErrColor(NoErr), rstr |-> <<>>, rstr2 |-> <<>>, rord |-> NoOrd, rcs |-> ColoredString_default]

CalcIdle == calc = NoCalc

----------------------------------------------------------------------------
(* The policy, used from one thread (control.rs)                           *)

\* a call's access to SHOULD_COLORIZE from a single thread: initCount counts from_env's runs
Access ==
    /\ pol'.lazy = "Complete"
    /\ initCount' = IF pol.lazy = "Complete" THEN initCount ELSE initCount + 1

\* control::SHOULD_COLORIZE.should_colorize()
ShouldColorizeCall ==
    /\ pol' = Deref(pol, env, tty)
    /\ Access
    /\ ret' = Some(should_colorize(pol'.v))
    /\ UNCHANGED <<calcVars, envVars, lastCall, csVars, renderVars, thrVars>>

\* control::set_override(b)
SetOverride ==
    \E b \in BOOLEAN :
        /\ phase # "done"
        /\ pol' = [Deref(pol, env, tty) EXCEPT !.v = set_override(@, b)]
        /\ Access
        /\ ret' = NoneBool
        /\ lastCall' = IF b THEN "set_true" ELSE "set_false"
        /\ UNCHANGED <<calcVars, envVars, csVars, renderVars, thrVars>>

\* control::unset_override()
UnsetOverride ==
    /\ phase # "done"
    /\ pol' = [Deref(pol, env, tty) EXCEPT !.v = unset_override(@)]
    /\ Access
    /\ ret' = NoneBool
    /\ lastCall' = "unset"
    /\ UNCHANGED <<calcVars, envVars, csVars, renderVars, thrVars>>

InitPolicy ==
    /\ CalcIdle
    /\ env \in Envs
    /\ tty \in BOOLEAN
    /\ pol = SHOULD_COLORIZE_new
    /\ initCount = 0
    /\ SequentialIdle
    /\ ComposerIdle
    /\ ThreadsIdle

NextPolicy == ShouldColorizeCall \/ SetOverride \/ UnsetOverride

SpecPolicy == InitPolicy /\ [][NextPolicy]_vars

----------------------------------------------------------------------------
(* Properties of the policy                                                *)

\* C3: whenever should_colorize() has just returned, its result is the manual override
\* if has_manual_override is set, else the clicolor_force value if it is Some, else
\* clicolor; and ShouldColorize::default() gives true.
C3_Decision(v) ==
    CASE v.has_manual_override -> v.manual_override
      [] ~v.has_manual_override /\ v.clicolor_force.some -> v.clicolor_force.val
      [] OTHER -> v.clicolor

C3_Precedence ==
    /\ ret.some => ret.val = C3_Decision(pol.v)
    /\ should_colorize(ShouldColorize_default) = TRUE

\* the override says false while clicolor_force and clicolor both say true
C3_Witness ==
    /\ ret = Some(FALSE)
    /\ pol.v.has_manual_override /\ ~pol.v.manual_override
    /\ pol.v.clicolor_force = Some(TRUE) /\ pol.v.clicolor

\* the decision the environment alone gives
EnvDecision(v) == IF v.clicolor_force.some THEN v.clicolor_force.val ELSE v.clicolor

\* C4: should_colorize() returns the argument of the last set_override if no
\* unset_override followed it, and the environment's decision otherwise.
C4_LastOverrideWins ==
    ret.some =>
        ret.val = CASE lastCall = "set_true" -> TRUE
                    [] lastCall = "set_false" -> FALSE
                    [] OTHER -> EnvDecision(pol.v)

\* after set_override(false) then unset_override(), the environment decides again
C4_Witness ==
    /\ lastCall = "unset" /\ ret = Some(TRUE)
    /\ ~pol.v.manual_override /\ ~pol.v.has_manual_override
    /\ pol.v.clicolor_force = NoneBool

\* C24: unset_override() leaves manual_override, clicolor and clicolor_force as they
\* were and has_manual_override is false after it, whether an override was set or not.
C24_UnsetClearsFlagOnly ==
    [][UnsetOverride =>
        LET before == Deref(pol, env, tty).v
        IN /\ ~pol'.v.has_manual_override
           /\ pol'.v.manual_override = before.manual_override
           /\ pol'.v.clicolor = before.clicolor
           /\ pol'.v.clicolor_force = before.clicolor_force
    ]_vars

\* unset_override() after set_override(true): the flag is off, the value is still true
C24_Witness ==
    /\ lastCall = "unset"
    /\ ~pol.v.has_manual_override /\ pol.v.manual_override
    /\ pol.v.clicolor_force = Some(TRUE)

\* unset_override() as the first call on the policy: no override was ever set
C24_WitnessNoOverride ==
    /\ lastCall = "unset" /\ initCount = 1
    /\ ~pol.v.has_manual_override /\ ~pol.v.manual_override /\ ~ret.some

\* env::var could read the variable: it is present and valid Unicode
IsSet(x) == x.ok

\* C6: without a manual override, CLICOLOR_FORCE set and not "0" forces true; otherwise
\* NO_COLOR set (to anything, "0" included) forces false; otherwise nothing is forced
\* and clicolor decides.  A variable env::var cannot read counts as unset.
C6_Force(e) ==
    IF IsSet(e.CLICOLOR_FORCE) /\ e.CLICOLOR_FORCE.val # "0" THEN Some(TRUE)
    ELSE IF IsSet(e.NO_COLOR) THEN Some(FALSE)
    ELSE NoneBool

C6_ForceResolution ==
    pol.lazy = "Complete" =>
        /\ pol.v.clicolor_force = C6_Force(env)
        /\ (ret.some /\ ~pol.v.has_manual_override) =>
              ret.val = IF C6_Force(env).some THEN C6_Force(env).val ELSE pol.v.clicolor

\* CLICOLOR_FORCE=1 beats NO_COLOR=1, CLICOLOR=0 and a missing terminal
C6_Witness ==
    /\ env.CLICOLOR_FORCE = Ok("1") /\ env.NO_COLOR = Ok("1") /\ env.CLICOLOR = Ok("0") /\ ~tty
    /\ ~pol.v.has_manual_override
    /\ ret = Some(TRUE)

\* NO_COLOR=0 still forces false when CLICOLOR_FORCE is 0
C6_WitnessNoColor ==
    /\ env.CLICOLOR_FORCE = Ok("0") /\ env.NO_COLOR = Ok("0") /\ tty
    /\ ~pol.v.has_manual_override
    /\ ret = Some(FALSE)

\* C7: the clicolor field is true exactly when CLICOLOR is unset (or unreadable) or
\* not "0", and standard output is a terminal.
C7_Clicolor ==
    pol.lazy = "Complete" =>
        pol.v.clicolor = ((~IsSet(env.CLICOLOR) \/ env.CLICOLOR.val # "0") /\ tty)

\* a CLICOLOR that is not valid Unicode counts as unset
C7_Witness ==
    /\ pol.lazy = "Complete"
    /\ env.CLICOLOR = NotUnicode /\ tty
    /\ pol.v.clicolor

----------------------------------------------------------------------------
(* Building a ColoredString (lib.rs, the Colorize trait)                   *)

\* the texts a program styles: empty, plain ASCII, a cut-off reset sequence
BaseTexts == {<<>>, <<"y", "o">>, <<ESC, "[", "0">>}

\* the colours the builder calls are given
ColorSample == {Named("Blue"), TrueColor(0, 128, 255)}

\* one builder call: the value it returns replaces the one it consumed
Builder(new, h) ==
    /\ phase \in {"inner", "outer"}
    /\ cs' = new
    /\ hist' = [h EXCEPT !.fresh = FALSE]
    /\ UNCHANGED <<calcVars, envVars, polVars, seqVars, renderVars, thrVars>>

Applied(a) == [hist EXCEPT !.attrs = @ \cup {a}]
Cleared == [NoHist EXCEPT !.text = hist.text]

\* ColoredString's methods
CallColor == \E c \in ColorSample : Builder(color(cs, c), [hist EXCEPT !.fg = c])
CallOnColor == \E c \in ColorSample : Builder(on_color(cs, c), [hist EXCEPT !.bg = c])
CallClear == Builder(clear(cs), Cleared)
CallNormal == Builder(normal(cs), Cleared)
CallBold == Builder(bold(cs), Applied("Bold"))
CallDimmed == Builder(dimmed(cs), Applied("Dimmed"))
CallItalic == Builder(italic(cs), Applied("Italic"))
CallUnderline == Builder(underline(cs), Applied("Underline"))
CallBlink == Builder(blink(cs), Applied("Blink"))
CallReverse == Builder(reverse(cs), Applied("Reversed"))
CallReversed == Builder(reversed(cs), Applied("Reversed"))
CallHidden == Builder(hidden(cs), Applied("Hidden"))
CallStrikethrough == Builder(strikethrough(cs), Applied("Strikethrough"))

\* &str's methods, on the text no builder call has touched yet
StrColor == \E c \in ColorSample : hist.fresh /\ Builder(str_color(hist.text, c), [hist EXCEPT !.fg = c])
StrOnColor == \E c \in ColorSample : hist.fresh /\ Builder(str_on_color(hist.text, c), [hist EXCEPT !.bg = c])
StrClear == hist.fresh /\ Builder(str_clear(hist.text), Cleared)
StrNormal == hist.fresh /\ Builder(str_normal(hist.text), Cleared)
StrBold == hist.fresh /\ Builder(str_bold(hist.text), Applied("Bold"))
StrDimmed == hist.fresh /\ Builder(str_dimmed(hist.text), Applied("Dimmed"))
StrItalic == hist.fresh /\ Builder(str_italic(hist.text), Applied("Italic"))
StrUnderline == hist.fresh /\ Builder(str_underline(hist.text), Applied("Underline"))
StrBlink == hist.fresh /\ Builder(str_blink(hist.text), Applied("Blink"))
StrReverse == hist.fresh /\ Builder(str_reverse(hist.text), Applied("Reversed"))
StrReversed == hist.fresh /\ Builder(str_reversed(hist.text), Applied("Reversed"))
StrHidden == hist.fresh /\ Builder(str_hidden(hist.text), Applied("Hidden"))
StrStrikethrough == hist.fresh /\ Builder(str_strikethrough(hist.text), Applied("Strikethrough"))

AttributeCall ==
    \/ CallBold \/ CallDimmed \/ CallItalic \/ CallUnderline \/ CallBlink
    \/ CallReverse \/ CallReversed \/ CallHidden \/ CallStrikethrough

StrAttributeCall ==
    \/ StrBold \/ StrDimmed \/ StrItalic \/ StrUnderline \/ StrBlink
    \/ StrReverse \/ StrReversed \/ StrHidden \/ StrStrikethrough

\* a text, not yet styled, in an interactive session where colorization is on
InitBuild ==
    /\ CalcIdle
    /\ env = PlainEnv
    /\ tty = TRUE
    /\ pol = SHOULD_COLORIZE_new
    /\ initCount = 0
    /\ SequentialIdle
    /\ \E text \in BaseTexts :
          /\ cs = From(text)
          /\ hist = [NoHist EXCEPT !.text = text]
    /\ out = <<>>
    /\ phase = "inner"
    /\ ThreadsIdle

NextBuild ==
    \/ CallColor \/ CallOnColor \/ CallClear \/ CallNormal
    \/ CallBold \/ CallDimmed \/ CallItalic \/ CallUnderline \/ CallBlink
    \/ CallReverse \/ CallReversed \/ CallHidden \/ CallStrikethrough
    \/ StrColor \/ StrOnColor \/ StrClear \/ StrNormal
    \/ StrBold \/ StrDimmed \/ StrItalic \/ StrUnderline \/ StrBlink
    \/ StrReverse \/ StrReversed \/ StrHidden \/ StrStrikethrough

SpecBuild == InitBuild /\ [][NextBuild]_vars

----------------------------------------------------------------------------
(* Properties of the builder                                               *)

\* how often the byte b occurs in s
CountByte(s, b) == Cardinality({i \in 1..Len(s) : s[i] = b})

EndsWith(s, suffix) == Len(suffix) <= Len(s) /\ SubSeq(s, Len(s) - Len(suffix) + 1, Len(s)) = suffix

\* whether the text t holds the text s
Contains(t, s) == \E i \in 0..(Len(t) - Len(s)) : OccursAt(t, s, i)

\* the policy a rendering would consult in the current state
PolicyNow == Deref(pol, env, tty).v

\* C9: the foreground is the argument of the last color call and the background that
\* of the last on_color call since construction or the last clear (None without one);
\* color changes nothing but the foreground and on_color nothing but the background;
\* applying a color/on_color pair a second time renders as applying it once.
C9_LastWriteWins ==
    /\ [](cs.fgcolor = hist.fg /\ cs.bgcolor = hist.bg)
    /\ [][CallColor => (cs'.bgcolor = cs.bgcolor /\ cs'.style = cs.style /\ cs'.input = cs.input)]_vars
    /\ [][CallOnColor => (cs'.fgcolor = cs.fgcolor /\ cs'.style = cs.style /\ cs'.input = cs.input)]_vars
    /\ [](\A c, d \in ColorSample :
            LET once == on_color(color(cs, c), d)
            IN fmt(on_color(color(once, c), d), PolicyNow) = fmt(once, PolicyNow))

\* a second color call and a second on_color call have replaced the first ones
C9_Witness ==
    /\ cs.fgcolor = Named("Blue") /\ hist.fg = Named("Blue")
    /\ cs.bgcolor = TrueColor(0, 128, 255)
    /\ cs.style = Style_add(Style_add(CLEARV, "Bold"), "Italic")
    /\ ~hist.fresh

Attributes == Styles \ {"Clear"}

\* C10: style().contains(a) holds exactly for the attributes applied since construction
\* or the last clear, whatever their order and however often each was applied; an
\* attribute call changes neither foreground, background nor text.
C10_AttributesAccumulate ==
    /\ [](\A a \in Attributes : Style_contains(cs.style, a) <=> a \in hist.attrs)
    /\ [][(AttributeCall \/ StrAttributeCall) =>
            (cs'.fgcolor = cs.fgcolor /\ cs'.bgcolor = cs.bgcolor /\ cs'.input = cs.input)]_vars

\* three attributes on a coloured value
C10_Witness ==
    /\ hist.attrs = {"Bold", "Italic", "Strikethrough"}
    /\ Style_contains(cs.style, "Bold") /\ Style_contains(cs.style, "Italic")
    /\ ~Style_contains(cs.style, "Dimmed")
    /\ cs.fgcolor = TrueColor(0, 128, 255) /\ cs.bgcolor = Named("Blue")

\* the policies a rendering may find: the environment's, and each override
PolicySample == {PolicyNow} \cup {set_override(PolicyNow, b) : b \in BOOLEAN}

\* C11: clear() and normal(), on a value built by any builder calls and on a plain
\* &str, give a value with no foreground, no background and no flags whose text is
\* the original text; is_plain() is then true and compute_style() is empty.
C11_ClearResets ==
    [][(CallClear \/ CallNormal \/ StrClear \/ StrNormal) =>
        /\ cs'.fgcolor = NoColor /\ cs'.bgcolor = NoColor /\ cs'.style = CLEARV
        /\ cs'.input = cs.input /\ cs'.input = hist.text
        /\ is_plain(cs')
        /\ \A p \in PolicySample : compute_style(cs', p) = <<>>
    ]_vars

\* a value that builder calls have touched and that is plain: clear() or normal() made it
C11_Witness ==
    /\ ~hist.fresh /\ hist.attrs = {} /\ hist.fg = NoColor /\ hist.bg = NoColor
    /\ cs = From(<<"y", "o">>)
    /\ is_plain(cs)

\* the attributes in the order they are written, each with its code
AttributeCodes ==
    <<[name |-> "Bold", code |-> <<"1">>], [name |-> "Dimmed", code |-> <<"2">>],
      [name |-> "Underline", code |-> <<"4">>], [name |-> "Reversed", code |-> <<"7">>],
      [name |-> "Italic", code |-> <<"3">>], [name |-> "Blink", code |-> <<"5">>],
      [name |-> "Hidden", code |-> <<"8">>], [name |-> "Strikethrough", code |-> <<"9">>]>>

\* the codes of the attributes of the set attrs, in that order
RECURSIVE CodesFrom(_, _)
CodesFrom(i, attrs) ==
    IF i > Len(AttributeCodes) THEN <<>>
    ELSE (IF AttributeCodes[i].name \in attrs THEN <<AttributeCodes[i].code>> ELSE <<>>) \o CodesFrom(i + 1, attrs)

NonEmpty(s) == s # <<>>

\* the parameters of the prefix of a value with the attributes attrs, the background bg
\* and the foreground fg: those that are present, attributes first, then bg, then fg
Parameters(attrs, bg, fg) ==
    CodesFrom(1, attrs)
    \o (IF bg # NoColor THEN <<to_bg_str(bg)>> ELSE <<>>)
    \o (IF fg # NoColor THEN <<to_fg_str(fg)>> ELSE <<>>)

\* C21: compute_style() is empty when colorization is off or the value is plain, and
\* otherwise ESC[ + the attributes' codes, the background and the foreground parameter,
\* those present, in that order, with one ';' between two of them + 'm', whatever the
\* order of the builder calls that set them.
C21_ComputeStyle ==
    \A p \in PolicySample :
        LET style == compute_style(cs, p)
            params == Parameters(hist.attrs, hist.bg, hist.fg)
        IN IF ~should_colorize(p) \/ params = <<>>
           THEN style = <<>>
           ELSE /\ style = <<ESC, "[">> \o Join(params, <<";">>) \o <<"m">>
                /\ ~Contains(style, <<";", ";">>) /\ ~Contains(style, <<"[", ";">>) /\ ~Contains(style, <<";", "m">>)
                /\ CountByte(style, ";") - CountByte(Join(params, <<>>), ";") = Len(params) - 1

\* "yo".blue().on_blue().bold() and "yo".bold().on_blue().blue() have the prefix ESC[1;44;34m
C21_Witness ==
    /\ hist.attrs = {"Bold"} /\ hist.fg = Named("Blue") /\ hist.bg = Named("Blue")
    /\ should_colorize(PolicyNow)
    /\ compute_style(cs, PolicyNow) = <<ESC, "[", "1", ";", "4", "4", ";", "3", "4", "m">>
    /\ compute_style(cs, set_override(PolicyNow, FALSE)) = <<>>

\* no color, on_color or attribute call since construction or the last clear / normal
NothingApplied == hist.fg = NoColor /\ hist.bg = NoColor /\ hist.attrs = {}

\* C28: is_plain() is true exactly when no color, on_color or attribute call was made
\* since construction or the last clear / normal, which is exactly when foreground and
\* background are None and the flags are Clear; with colorization on, the rendering
\* holds escape bytes that the text does not hold exactly when is_plain() is false.
C28_PlainFollowsHistory ==
    /\ is_plain(cs) <=> NothingApplied
    /\ NothingApplied <=> (cs.fgcolor = NoColor /\ cs.bgcolor = NoColor /\ cs.style = CLEARV)
    /\ \A p \in PolicySample :
          should_colorize(p) =>
              /\ (CountByte(fmt(cs, p), ESC) > CountByte(cs.input, ESC)) <=> ~is_plain(cs)
              /\ is_plain(cs) => fmt(cs, p) = cs.input

\* "yo".italic(): not plain, and rendered with two escape bytes the text has not
C28_Witness ==
    /\ hist.attrs = {"Italic"} /\ hist.fg = NoColor /\ hist.bg = NoColor
    /\ ~is_plain(cs)
    /\ should_colorize(PolicyNow)
    /\ fmt(cs, PolicyNow) = <<ESC, "[", "3", "m", "y", "o", ESC, "[", "0", "m">>

\* a text holding an escape byte, styled and cleared again: plain, rendered as it is
C28_WitnessCleared ==
    /\ ~hist.fresh /\ NothingApplied
    /\ is_plain(cs)
    /\ should_colorize(PolicyNow)
    /\ fmt(cs, PolicyNow) = <<ESC, "[", "0">>

----------------------------------------------------------------------------
(* Rendering, and nesting a rendered value in the text of another          *)

\* how many rendered copies one format! embeds
MaxEmbed == 2

\* k copies of s, with sep between them
RECURSIVE Copies(_, _, _)
Copies(s, k, sep) == IF k <= 1 THEN s ELSE s \o sep \o Copies(s, k - 1, sep)

\* format!("s{} {}e", x, x) when wrap, format!("{}{}", x, x) otherwise, with k arguments
Format(s, k, wrap) ==
    IF wrap THEN <<"s">> \o Copies(s, k, <<" ">>) \o <<"e">> ELSE Copies(s, k, <<>>)

\* value.to_string(): Display::fmt, which consults SHOULD_COLORIZE
Render ==
    /\ phase \in {"inner", "outer"}
    /\ phase' = IF phase = "inner" THEN "fmt" ELSE "done"
    /\ pol' = Deref(pol, env, tty)
    /\ Access
    /\ out' = fmt(cs, pol'.v)
    /\ ret' = NoneBool
    /\ UNCHANGED <<calcVars, envVars, lastCall, csVars, thrVars>>

\* the rendered inner value becomes part of the text of the outer value
Nest ==
    \E k \in 1..MaxEmbed, wrap \in BOOLEAN :
        /\ phase = "fmt"
        /\ cs' = From(Format(out, k, wrap))
        /\ hist' = [NoHist EXCEPT !.text = Format(out, k, wrap)]
        /\ phase' = "outer"
        /\ UNCHANGED <<calcVars, envVars, polVars, seqVars, out, thrVars>>

Init == InitBuild

Next ==
    \/ CallColor \/ CallOnColor \/ CallBold \/ CallClear
    \/ SetOverride \/ UnsetOverride
    \/ Render
    \/ Nest

Spec == Init /\ [][Next]_vars

----------------------------------------------------------------------------
(* Properties of rendering                                                 *)

\* C1: a rendering gives the input verbatim, with no escape byte added, when
\* should_colorize() is false or the value is plain; otherwise it gives
\* compute_style(), then the reset-escaped input, then one reset sequence.
C1_Display ==
    [][Render =>
        LET p == pol'.v
        IN IF ~should_colorize(p) \/ is_plain(cs)
           THEN out' = cs.input /\ CountByte(out', ESC) = CountByte(cs.input, ESC)
           ELSE /\ out' = compute_style(cs, p) \o escape_inner_reset_sequences(cs, p) \o RESET
                /\ compute_style(cs, p) # <<>>
                /\ Len(out') = Len(compute_style(cs, p)) + Len(escape_inner_reset_sequences(cs, p)) + Len(RESET)
    ]_vars

\* "yo".blue().on_truecolor(0, 128, 255).bold() rendered with colorization on
C1_Witness ==
    /\ phase = "fmt"
    /\ cs.input = <<"y", "o">>
    /\ out = <<ESC, "[", "1", ";", "4", "8", ";", "2", ";", "0", ";", "1", "2", "8", ";",
               "2", "5", "5", ";", "3", "4", "m", "y", "o", ESC, "[", "0", "m">>

\* C2: with colorization on, in the rendering of a styled value every reset sequence
\* but the final one is directly followed by the value's style prefix, the rendering
\* ends with a reset sequence, and it holds one reset sequence more than the text.
C2_NestedResets ==
    [][(Render /\ should_colorize(pol'.v) /\ ~is_plain(cs)) =>
        LET prefix == compute_style(cs, pol'.v)
            resets == MatchIndices(out', RESET, 0)
        IN /\ EndsWith(out', RESET)
           /\ Len(resets) = Len(MatchIndices(cs.input, RESET, 0)) + 1
           /\ \A i \in 1..(Len(resets) - 1) : OccursAt(out', prefix, resets[i] + Len(RESET))
           /\ resets[Len(resets)] + Len(RESET) = Len(out')
    ]_vars

\* format!("s{} {}e", x, x).blue() with x = "yo".bold(), after the test at lib.rs:1016-1038
C2_Witness ==
    /\ phase = "done"
    /\ Len(MatchIndices(cs.input, RESET, 0)) = 2
    /\ out = <<ESC, "[", "3", "4", "m", "s",
               ESC, "[", "1", "m", "y", "o", ESC, "[", "0", "m", ESC, "[", "3", "4", "m", " ",
               ESC, "[", "1", "m", "y", "o", ESC, "[", "0", "m", ESC, "[", "3", "4", "m", "e",
               ESC, "[", "0", "m">>

\* the text rebuilt segment by segment: each segment up to and with a reset sequence,
\* then the style, then the rest rebuilt alike
RECURSIVE Rebuild(_, _)
Rebuild(s, style) ==
    LET j == NextMatch(s, RESET, 0)
    IN IF j < 0 THEN s
       ELSE SubSeq(s, 1, j + Len(RESET)) \o style \o Rebuild(Skip(s, j + Len(RESET)), style)

\* how many reset sequences the text holds, none overlapping another
RECURSIVE Resets(_)
Resets(s) ==
    LET j == NextMatch(s, RESET, 0)
    IN IF j < 0 THEN 0 ELSE 1 + Resets(Skip(s, j + Len(RESET)))

\* C22: escape_inner_reset_sequences() gives the text as it is when colorization is
\* off, when the value is plain, or when the text holds no reset sequence; otherwise it
\* gives the text with compute_style() put right after each of its k reset sequences
\* and nothing else changed, which is k times the prefix's length longer than the text.
C22_EscapeIsRebuild ==
    \A p \in PolicySample :
        LET escaped == escape_inner_reset_sequences(cs, p)
            style == compute_style(cs, p)
            k == Resets(cs.input)
        IN IF ~should_colorize(p) \/ is_plain(cs) \/ k = 0
           THEN escaped = cs.input
           ELSE /\ escaped = Rebuild(cs.input, style)
                /\ Len(escaped) = Len(cs.input) + k * Len(style)
                /\ style # <<>>

\* format!("s{} {}e", x, x).blue() with x = "yo".bold(): the text holds two reset
\* sequences, and ESC[34m is put after each
C22_Witness ==
    /\ phase = "outer" /\ cs.fgcolor = Named("Blue") /\ cs.bgcolor = NoColor /\ cs.style = CLEARV
    /\ should_colorize(PolicyNow)
    /\ cs.input = <<"s", ESC, "[", "1", "m", "y", "o", ESC, "[", "0", "m", " ",
                     ESC, "[", "1", "m", "y", "o", ESC, "[", "0", "m", "e">>
    /\ escape_inner_reset_sequences(cs, PolicyNow) =
          <<"s", ESC, "[", "1", "m", "y", "o", ESC, "[", "0", "m", ESC, "[", "3", "4", "m", " ",
            ESC, "[", "1", "m", "y", "o", ESC, "[", "0", "m", ESC, "[", "3", "4", "m", "e">>

\* a plain value whose text holds reset sequences: the text is left as it is
C22_WitnessPlain ==
    /\ phase = "outer" /\ is_plain(cs) /\ should_colorize(PolicyNow)
    /\ Resets(cs.input) = 2
    /\ escape_inner_reset_sequences(cs, PolicyNow) = cs.input

----------------------------------------------------------------------------
(* The policy, used from several threads (control.rs)                      *)
(*                                                                         *)
(* Every atomic load and store is a step of its own, and so is every       *)
(* transition of the LazyLock behind SHOULD_COLORIZE.  Steps interleave in *)
(* program order; Ordering::Relaxed allows every such interleaving.        *)

\* how many override calls the writer makes
MaxCalls == 2

\* the variables another part of the process changes while the threads run
ChangedVars == {"CLICOLOR", "NO_COLOR", "CLICOLOR_FORCE"}
ChangedVals == {NotPresent, Ok("0"), Ok("1")}
ConcEnvs == [CLICOLOR : ChangedVals, CLICOLOR_FORCE : ChangedVals, NO_COLOR : ChangedVals]

\* mutant: a thread runs the initializer whenever the value is not there yet
LazyLock_claim_Racy(p) == p.lazy # "Complete"

\* LazyLock::force: the thread that finds the cell untouched runs the initializer
LazyLock_claim(p) == p.lazy = "Uninit"

InBody(t) == pc[t] \in {"store_flag", "store_value", "unset_store", "load_flag", "load_value"}

\* where the method body of the call in progress starts
BodyStart(t) ==
    CASE loc[t].op = "set" -> "store_flag"
      [] loc[t].op = "unset" -> "unset_store"
      [] OTHER -> "load_flag"

\* thread t has the &ShouldColorize v and enters its method body
Enter(t, v) ==
    LET before == should_colorize(v)
        seenNow == [some |-> TRUE, clicolor |-> v.clicolor, clicolor_force |-> v.clicolor_force]
        running == {w \in Writers : InBody(w)}
    IN /\ pc' = [pc EXCEPT ![t] = BodyStart(t)]
       /\ loc' = [loc EXCEPT ![t].pre = before, ![t].seen = seenNow]
       /\ obs' = [r \in Readers |->
                    IF r = t
                    THEN IF running = {} THEN NoObs
                         ELSE LET w == CHOOSE w \in running : TRUE
                              IN [n |-> Cardinality(running), kind |-> loc[w].op,
                                  pre |-> loc[w].pre, v |-> loc[w].arg]
                    ELSE IF t \in Writers /\ InBody(r)
                    THEN [n |-> obs[r].n + 1, kind |-> loc[t].op, pre |-> before, v |-> loc[t].arg]
                    ELSE obs[r]]

\* thread t's call is over
Leave(t, result) ==
    /\ pc' = [pc EXCEPT ![t] = "idle"]
    /\ loc' = [loc EXCEPT ![t].op = "none", ![t].arg = FALSE, ![t].flag = FALSE,
                          ![t].pre = FALSE, ![t].res = result]
    /\ obs' = obs

\* control::set_override(b) is called
BeginSetOverride(t) ==
    \E b \in BOOLEAN :
        /\ pc[t] = "idle" /\ loc[t].calls < MaxCalls
        /\ pc' = [pc EXCEPT ![t] = "deref"]
        /\ loc' = [loc EXCEPT ![t].op = "set", ![t].arg = b, ![t].calls = @ + 1]
        /\ UNCHANGED <<calcVars, envVars, polVars, seqVars, csVars, renderVars, obs>>

\* control::unset_override() is called
BeginUnsetOverride(t) ==
    /\ pc[t] = "idle" /\ loc[t].calls < MaxCalls
    /\ pc' = [pc EXCEPT ![t] = "deref"]
    /\ loc' = [loc EXCEPT ![t].op = "unset", ![t].calls = @ + 1]
    /\ UNCHANGED <<calcVars, envVars, polVars, seqVars, csVars, renderVars, obs>>

\* SHOULD_COLORIZE.should_colorize() is called
BeginShouldColorize(t) ==
    /\ pc[t] = "idle"
    /\ pc' = [pc EXCEPT ![t] = "deref"]
    /\ loc' = [loc EXCEPT ![t].op = "read", ![t].res = NoneBool]
    /\ obs' = [obs EXCEPT ![t] = NoObs]
    /\ UNCHANGED <<calcVars, envVars, polVars, seqVars, csVars, renderVars>>

\* the LazyLock is complete: the access gives the value
DerefReady(t) ==
    /\ pc[t] \in {"deref", "parked"}
    /\ pol.lazy = "Complete"
    /\ Enter(t, pol.v)
    /\ UNCHANGED <<calcVars, envVars, polVars, seqVars, csVars, renderVars>>

\* the LazyLock is untouched: the thread takes the initialization on itself
DerefClaim(t) ==
    /\ pc[t] = "deref"
    /\ LazyLock_claim(pol)
    /\ pol' = [pol EXCEPT !.lazy = "Running"]
    /\ pc' = [pc EXCEPT ![t] = "init"]
    /\ UNCHANGED <<calcVars, envVars, initCount, seqVars, csVars, renderVars, loc, obs>>

\* another thread is initializing: the thread waits for it
DerefPark(t) ==
    /\ pc[t] = "deref"
    /\ pol.lazy = "Running"
    /\ pc' = [pc EXCEPT ![t] = "parked"]
    /\ UNCHANGED <<calcVars, envVars, polVars, seqVars, csVars, renderVars, loc, obs>>

\* the initializer, ShouldColorize::from_env, has run; the LazyLock is complete
InitDone(t) ==
    /\ pc[t] = "init"
    /\ pol' = [lazy |-> "Complete", v |-> from_env(env, tty)]
    /\ initCount' = initCount + 1
    /\ Enter(t, pol'.v)
    /\ UNCHANGED <<calcVars, envVars, seqVars, csVars, renderVars>>

\* set_override: has_manual_override.store(true, Relaxed)
StoreFlag(t) ==
    /\ pc[t] = "store_flag"
    /\ pol' = [pol EXCEPT !.v = set_override_store1(@, loc[t].arg)]
    /\ pc' = [pc EXCEPT ![t] = "store_value"]
    /\ UNCHANGED <<calcVars, envVars, initCount, seqVars, csVars, renderVars, loc, obs>>

\* set_override: manual_override.store(override_colorize, Relaxed)
StoreValue(t) ==
    /\ pc[t] = "store_value"
    /\ pol' = [pol EXCEPT !.v = set_override_store2(@, loc[t].arg)]
    /\ Leave(t, NoneBool)
    /\ UNCHANGED <<calcVars, envVars, initCount, seqVars, csVars, renderVars>>

\* unset_override: has_manual_override.store(false, Relaxed)
UnsetStore(t) ==
    /\ pc[t] = "unset_store"
    /\ pol' = [pol EXCEPT !.v = unset_override(@)]
    /\ Leave(t, NoneBool)
    /\ UNCHANGED <<calcVars, envVars, initCount, seqVars, csVars, renderVars>>

\* should_colorize: has_manual_override.load(Relaxed); without an override the
\* immutable fields decide
LoadFlag(t) ==
    /\ pc[t] = "load_flag"
    /\ IF pol.v.has_manual_override
       THEN /\ pc' = [pc EXCEPT ![t] = "load_value"]
            /\ loc' = [loc EXCEPT ![t].flag = TRUE]
            /\ obs' = obs
       ELSE Leave(t, Some(should_colorize([pol.v EXCEPT !.has_manual_override = FALSE])))
    /\ UNCHANGED <<calcVars, envVars, polVars, seqVars, csVars, renderVars>>

\* should_colorize: return manual_override.load(Relaxed)
LoadValue(t) ==
    /\ pc[t] = "load_value"
    /\ Leave(t, Some(should_colorize([pol.v EXCEPT !.has_manual_override = loc[t].flag])))
    /\ UNCHANGED <<calcVars, envVars, polVars, seqVars, csVars, renderVars>>

\* std::env::set_var / remove_var somewhere else in the process
SetVar ==
    \E name \in ChangedVars, val \in ChangedVals :
        /\ env[name] # val
        /\ env' = [env EXCEPT ![name] = val]
        /\ UNCHANGED <<calcVars, tty, polVars, seqVars, csVars, renderVars, thrVars>>

\* standard output is redirected
SetTty ==
    /\ tty' = ~tty
    /\ UNCHANGED <<calcVars, env, polVars, seqVars, csVars, renderVars, thrVars>>

InitConc ==
    /\ CalcIdle
    /\ env \in ConcEnvs
    /\ tty \in BOOLEAN
    /\ pol = SHOULD_COLORIZE_new
    /\ initCount = 0
    /\ SequentialIdle
    /\ ComposerIdle
    /\ ThreadsIdle

NextConc ==
    \/ \E t \in Writers : BeginSetOverride(t)
    \/ \E t \in Writers : BeginUnsetOverride(t)
    \/ \E t \in Readers : BeginShouldColorize(t)
    \/ \E t \in Threads : DerefReady(t)
    \/ \E t \in Threads : DerefClaim(t)
    \/ \E t \in Threads : DerefPark(t)
    \/ \E t \in Threads : InitDone(t)
    \/ \E t \in Writers : StoreFlag(t)
    \/ \E t \in Writers : StoreValue(t)
    \/ \E t \in Writers : UnsetStore(t)
    \/ \E t \in Readers : LoadFlag(t)
    \/ \E t \in Readers : LoadValue(t)
    \/ SetVar
    \/ SetTty

SpecConc == InitConc /\ [][NextConc]_vars

----------------------------------------------------------------------------
(* Properties of the policy under concurrency                              *)

\* a reader's call has returned and exactly one override call, a set_override, ran
\* while it was running
OverlappedOneSet(r) ==
    /\ pc[r] = "idle" /\ loc[r].res.some
    /\ obs[r].n = 1 /\ obs[r].kind = "set"

\* C5: a should_colorize() call that runs concurrently with one set_override(v) call
\* returns the decision in force before that call or v.
C5_PriorOrNew ==
    \A r \in Readers :
        OverlappedOneSet(r) => loc[r].res.val \in {obs[r].pre, obs[r].v}

\* C23: set_override(v) has written the value v when it writes the enabled flag: the
\* step that turns has_manual_override on, no override being in force before it, never
\* leaves manual_override at another value than v.
C23_ValueBeforeFlag ==
    [][\A w \in Writers :
        (StoreFlag(w) /\ ~pol.v.has_manual_override) => pol'.v.manual_override = loc[w].arg
    ]_vars

\* C8: from_env runs at most once; once the LazyLock is complete no step changes
\* clicolor or clicolor_force, whatever happens to the environment and whichever
\* override call runs; no thread gets at the value before it is complete, and all
\* threads find the same two fields.
C8_LazyOnce ==
    /\ [](initCount <= 1)
    /\ [][pol.lazy = "Complete" =>
            /\ pol'.lazy = "Complete"
            /\ pol'.v.clicolor = pol.v.clicolor
            /\ pol'.v.clicolor_force = pol.v.clicolor_force]_vars
    /\ [][(pol'.v.clicolor # pol.v.clicolor \/ pol'.v.clicolor_force # pol.v.clicolor_force)
            => (\E t \in Threads : InitDone(t))]_vars
    /\ [](\A t \in Threads : InBody(t) => pol.lazy = "Complete")
    /\ [](\A t \in Threads : loc[t].seen.some =>
            /\ pol.lazy = "Complete"
            /\ loc[t].seen.clicolor = pol.v.clicolor
            /\ loc[t].seen.clicolor_force = pol.v.clicolor_force)

\* both threads have used the policy, an override is set, and the environment has
\* since changed to one from_env would read differently
C8_Witness ==
    /\ initCount = 1
    /\ \A t \in Threads : loc[t].seen.some
    /\ pol.v.has_manual_override /\ pol.v.manual_override
    /\ from_env(env, tty).clicolor # pol.v.clicolor
    /\ from_env(env, tty).clicolor_force # pol.v.clicolor_force

\* the two threads make their first access at the same time: one initializes, the
\* other waits
C8_WitnessRace ==
    /\ pol.lazy = "Running"
    /\ \E t, u \in Threads : pc[t] = "init" /\ pc[u] = "parked"

----------------------------------------------------------------------------
(* A rendering while another thread changes the override (lib.rs)          *)
(*                                                                         *)
(* Display::fmt asks has_colors() at four places: in fmt itself, in        *)
(* escape_inner_reset_sequences, in the compute_style that one calls, and  *)
(* in the compute_style fmt calls for the prefix.  Each is a call of       *)
(* should_colorize(), with its loads as steps of their own.                *)

\* the values rendered: "yo".blue(), a bold value on a TrueColor whose text holds the
\* rendering of another value, and a plain text
RacingValues ==
    {str_named(<<"y", "o">>, "Blue"),
     on_color(bold(From(<<"a">> \o RESET \o <<"b">>)), TrueColor(0, 128, 255)),
     From(<<"y", "o">>)}

\* a ShouldColorize whose should_colorize() is d: what a has_colors() call that
\* returned d has seen
Decided(d) == [ShouldColorize_default EXCEPT !.has_manual_override = TRUE, !.manual_override = d]

\* the rendering thread has a has_colors() result to go on with
Returned(r) == pc[r] = "idle" /\ loc[r].res.some

\* the rendering thread goes on to the place next, with escaped_input as given
GoOn(r, next, escaped) ==
    /\ phase' = next
    /\ loc' = [loc EXCEPT ![r].res = NoneBool, ![r].escaped_input = escaped]
    /\ UNCHANGED <<calcVars, envVars, polVars, seqVars, csVars, pc, obs>>

\* self.has_colors(), at any of the four places
HasColors(r) ==
    /\ phase \in {"fmt", "escape", "escape_style", "prefix"}
    /\ ~loc[r].res.some
    /\ BeginShouldColorize(r)

\* fmt: if !self.has_colors() || self.is_plain() { return <String as Display>::fmt(&self.input, f) }
FmtChecked(r) ==
    /\ phase = "fmt" /\ Returned(r)
    /\ IF ~loc[r].res.val \/ is_plain(cs)
       THEN out' = cs.input /\ GoOn(r, "done", <<>>)
       ELSE out' = out /\ GoOn(r, "escape", <<>>)

\* escape_inner_reset_sequences: if !self.has_colors() || self.is_plain() { return self.input }
EscapeChecked(r) ==
    /\ phase = "escape" /\ Returned(r)
    /\ out' = out
    /\ IF ~loc[r].res.val \/ is_plain(cs)
       THEN GoOn(r, "prefix", cs.input)
       ELSE GoOn(r, "escape_style", <<>>)

\* escape_inner_reset_sequences: let style = self.compute_style(), and the insertions
EscapeStyled(r) ==
    /\ phase = "escape_style" /\ Returned(r)
    /\ out' = out
    /\ LET style == compute_style(cs, Decided(loc[r].res.val))
           matches == MatchIndices(cs.input, RESET, 0)
       IN GoOn(r, "prefix", IF matches = <<>> THEN cs.input ELSE EscapeLoop(cs.input, matches, 1, style))

\* fmt: f.write_str(&self.compute_style()), escaped_input.fmt(f), f.write_str("\x1B[0m")
FmtWritten(r) ==
    /\ phase = "prefix" /\ Returned(r)
    /\ out' = compute_style(cs, Decided(loc[r].res.val)) \o loc[r].escaped_input \o RESET
    /\ GoOn(r, "done", loc[r].escaped_input)

\* a value about to be rendered, in an interactive session where colorization is on
InitRace ==
    /\ CalcIdle
    /\ env = PlainEnv
    /\ tty = TRUE
    /\ pol = SHOULD_COLORIZE_new
    /\ initCount = 0
    /\ SequentialIdle
    /\ cs \in RacingValues
    /\ hist = [NoHist EXCEPT !.text = cs.input]
    /\ out = <<>>
    /\ phase = "fmt"
    /\ ThreadsIdle

NextRace ==
    \/ \E t \in Writers : BeginSetOverride(t)
    \/ \E t \in Writers : BeginUnsetOverride(t)
    \/ \E t \in Readers : HasColors(t)
    \/ \E t \in Threads : DerefReady(t)
    \/ \E t \in Threads : DerefClaim(t)
    \/ \E t \in Threads : DerefPark(t)
    \/ \E t \in Threads : InitDone(t)
    \/ \E t \in Writers : StoreFlag(t)
    \/ \E t \in Writers : StoreValue(t)
    \/ \E t \in Writers : UnsetStore(t)
    \/ \E t \in Readers : LoadFlag(t)
    \/ \E t \in Readers : LoadValue(t)
    \/ \E t \in Readers : FmtChecked(t)
    \/ \E t \in Readers : EscapeChecked(t)
    \/ \E t \in Readers : EscapeStyled(t)
    \/ \E t \in Readers : FmtWritten(t)

SpecRace == InitRace /\ [][NextRace]_vars

----------------------------------------------------------------------------
(* Properties of a rendering under concurrency                             *)

\* the prefix of the value when it is written with colours
StylePrefix == compute_style(cs, Decided(TRUE))

\* C25: a rendering that override calls run alongside gives the bare text, or the
\* non-empty prefix + the text with that prefix after each inner reset + ESC[0m.
C25_OneDecision ==
    phase = "done" =>
        \/ out = cs.input
        \/ /\ StylePrefix # <<>>
           /\ out = StylePrefix \o Rebuild(cs.input, StylePrefix) \o RESET

\* with no override call made, the rendering is the one of fmt, and C25 holds of it
C25_AloneAsFmt ==
    (phase = "done" /\ \A w \in Writers : loc[w].calls = 0) =>
        /\ out = fmt(cs, pol.v)
        /\ \/ out = cs.input
           \/ out = StylePrefix \o Rebuild(cs.input, StylePrefix) \o RESET

\* the rendering of "yo".blue() is "yo" + ESC[0m: the text and a reset, with no prefix
C25_TextThenReset ==
    /\ phase = "done" /\ cs = str_named(<<"y", "o">>, "Blue")
    /\ out = <<"y", "o">> \o RESET

\* a prefix, and the inner reset left as it is
C25_InnerResetUnescaped ==
    /\ phase = "done" /\ Resets(cs.input) = 1
    /\ out = StylePrefix \o cs.input \o RESET

----------------------------------------------------------------------------
(* Override calls from several threads (control.rs)                        *)

\* a call as a thread's record of it
SetCall(b) == [op |-> "set", arg |-> b]
UnsetCall == [op |-> "unset", arg |-> FALSE]

\* control::set_override(b) is called, by a thread that keeps a record of its calls
CallSetOverride(t) ==
    \E b \in BOOLEAN :
        /\ pc[t] = "idle" /\ loc[t].calls < MaxCalls
        /\ pc' = [pc EXCEPT ![t] = "deref"]
        /\ loc' = [loc EXCEPT ![t].op = "set", ![t].arg = b, ![t].calls = @ + 1,
                              ![t].made = Append(@, SetCall(b))]
        /\ UNCHANGED <<calcVars, envVars, polVars, seqVars, csVars, renderVars, obs>>

\* control::unset_override() is called, by a thread that keeps a record of its calls
CallUnsetOverride(t) ==
    /\ pc[t] = "idle" /\ loc[t].calls < MaxCalls
    /\ pc' = [pc EXCEPT ![t] = "deref"]
    /\ loc' = [loc EXCEPT ![t].op = "unset", ![t].calls = @ + 1, ![t].made = Append(@, UnsetCall)]
    /\ UNCHANGED <<calcVars, envVars, polVars, seqVars, csVars, renderVars, obs>>

InitWriters ==
    /\ CalcIdle
    /\ env \in {PlainEnv, [PlainEnv EXCEPT !.NO_COLOR = Ok("1")]}
    /\ tty = TRUE
    /\ pol = SHOULD_COLORIZE_new
    /\ initCount = 0
    /\ SequentialIdle
    /\ ComposerIdle
    /\ ThreadsIdle

\* every thread makes override calls
NextWriters ==
    \/ \E t \in Threads : CallSetOverride(t)
    \/ \E t \in Threads : CallUnsetOverride(t)
    \/ \E t \in Threads : DerefReady(t)
    \/ \E t \in Threads : DerefClaim(t)
    \/ \E t \in Threads : DerefPark(t)
    \/ \E t \in Threads : InitDone(t)
    \/ \E t \in Threads : StoreFlag(t)
    \/ \E t \in Threads : StoreValue(t)
    \/ \E t \in Threads : UnsetStore(t)

SpecWriters == InitWriters /\ [][NextWriters]_vars

----------------------------------------------------------------------------
(* Properties of override calls from several threads                      *)

\* the orders two threads' calls can be put in, each thread's own order kept
RECURSIVE Interleavings(_, _)
Interleavings(a, b) ==
    IF a = <<>> THEN {b}
    ELSE IF b = <<>> THEN {a}
    ELSE {<<Head(a)>> \o x : x \in Interleavings(Tail(a), b)}
         \cup {<<Head(b)>> \o x : x \in Interleavings(a, Tail(b))}

\* the calls of the sequence made one after another on the ShouldColorize v
RECURSIVE Sequentially(_, _)
Sequentially(calls, v) ==
    IF calls = <<>> THEN v
    ELSE Sequentially(Tail(calls),
                      IF Head(calls).op = "set" THEN set_override(v, Head(calls).arg) ELSE unset_override(v))

AllReturned == \A t \in Threads : pc[t] = "idle"

C26_WitnessOverlap ==
    /\ pc["w"] = "store_value" /\ pc["r"] = "store_value"
    /\ loc["w"].arg # loc["r"].arg

----------------------------------------------------------------------------
(* Calls of the functions of style.rs                                      *)

\* the Style in hand, with no result of a call on it
StyleInHand(flags, added) == [NoCalc EXCEPT !.kind = "style", !.self = flags, !.added = added]

StyleCall(new) ==
    /\ calc.kind = "style"
    /\ calc' = new
    /\ UNCHANGED <<envVars, polVars, seqVars, csVars, renderVars, thrVars>>

\* style.add(two)
StyleAdd ==
    \E two \in Styles \ {"Clear"} :
        StyleCall([StyleInHand(Style_add(calc.self, two), calc.added \cup {two}) EXCEPT !.op = "add"])

\* style.to_str()
StyleToStr ==
    StyleCall([StyleInHand(calc.self, calc.added) EXCEPT !.op = "to_str", !.rstr = Style_to_str(calc.self)])

\* Styles::from_u8(style.0)
StylesFromU8 ==
    StyleCall([StyleInHand(calc.self, calc.added) EXCEPT !.op = "from_u8", !.rstyles = from_u8(calc.self)])

\* style.contains(a), for each attribute a
StyleContains ==
    StyleCall([StyleInHand(calc.self, calc.added) EXCEPT
                  !.op = "contains",
                  !.rcontains = {a \in Styles \ {"Clear"} : Style_contains(calc.self, a)}])

\* style::CLEAR
InitStyle ==
    /\ calc = StyleInHand(CLEARV, {})
    /\ env = PlainEnv
    /\ tty = TRUE
    /\ pol = SHOULD_COLORIZE_new
    /\ initCount = 0
    /\ SequentialIdle
    /\ ComposerIdle
    /\ ThreadsIdle

NextStyle == StyleAdd \/ StyleToStr \/ StylesFromU8 \/ StyleContains

SpecStyle == InitStyle /\ [][NextStyle]_vars

----------------------------------------------------------------------------
(* Properties of style.rs                                                  *)

\* C27: Style::to_str gives the codes of the attributes that were added, each once, in
\* the order Bold, Dimmed, Underline, Reversed, Italic, Blink, Hidden, Strikethrough
\* (1, 2, 4, 7, 3, 5, 8, 9), with ';' between them, and the empty string for Clear,
\* whatever the order the attributes were added in.
C27_StyleToStr ==
    calc.op = "to_str" =>
        /\ calc.rstr = Join(CodesFrom(1, calc.added), <<";">>)
        /\ calc.self = CLEARV => calc.rstr = <<>>
        /\ calc.added = {} <=> calc.self = CLEARV
        /\ \A i \in 1..Len(AttributeCodes) :
              CountByte(calc.rstr, AttributeCodes[i].code[1]) =
                  (IF AttributeCodes[i].name \in calc.added THEN 1 ELSE 0)

\* all eight attributes: "1;2;4;7;3;5;8;9"
C27_Witness ==
    /\ calc.op = "to_str" /\ calc.self = 255 /\ calc.added = Attributes
    /\ calc.rstr = <<"1", ";", "2", ";", "4", ";", "7", ";", "3", ";", "5", ";", "8", ";", "9">>

\* whether bit k (0 the lowest) of the byte u is set
BitSet(u, k) == (u \div (2 ^ k)) % 2 = 1

\* the bit the attribute a has, if its mask is one bit
BitOf(a) == CHOOSE k \in 0..7 : Styles_to_u8(a) = 2 ^ k

\* C30: each attribute's mask is one bit, no two attributes have the same and the eight
\* cover the byte; from_u8 of one attribute's mask is the list of that attribute, and
\* from_u8(0) is None; contains(a) is true exactly when the bit of a is set, which is
\* when a was added, so that adding one attribute does not make contains true of another.
C30_OneBitEach ==
    /\ \A a \in Attributes : \E k \in 0..7 : Styles_to_u8(a) = 2 ^ k
    /\ \A a, b \in Attributes : a # b => Styles_to_u8(a) # Styles_to_u8(b)
    /\ {Styles_to_u8(a) : a \in Attributes} = {2 ^ k : k \in 0..7}
    /\ calc.op = "from_u8" =>
          /\ \A a \in Attributes : calc.self = Styles_to_u8(a) => calc.rstyles = SomeStyles(<<a>>)
          /\ \A a \in Attributes : calc.added = {a} => calc.rstyles = SomeStyles(<<a>>)
          /\ calc.self = 0 => calc.rstyles = NoStyles
    /\ calc.op = "contains" =>
          /\ calc.rcontains = {a \in Attributes : BitSet(calc.self, BitOf(a))}
          /\ calc.rcontains = calc.added

\* from_u8 of the mask of Dimmed is [Dimmed]
C30_Witness ==
    /\ calc.op = "from_u8" /\ calc.self = 64 /\ calc.added = {"Dimmed"}
    /\ calc.rstyles = SomeStyles(<<"Dimmed">>)

\* contains is true of Dimmed and Italic and of no other attribute
C30_WitnessContains ==
    /\ calc.op = "contains" /\ calc.self = 72
    /\ calc.rcontains = {"Dimmed", "Italic"}

\* from_u8(0) is None
C30_WitnessClear ==
    /\ calc.op = "from_u8" /\ calc.self = 0 /\ calc.rstyles = NoStyles

----------------------------------------------------------------------------
(* Calls of the functions of color.rs                                      *)

\* the names the tests of color.rs and lib.rs parse, each with the variant it is for
ColourNames ==
    {[name |-> <<"b", "l", "a", "c", "k">>, tag |-> "Black"],
     [name |-> <<"r", "e", "d">>, tag |-> "Red"],
     [name |-> <<"g", "r", "e", "e", "n">>, tag |-> "Green"],
     [name |-> <<"y", "e", "l", "l", "o", "w">>, tag |-> "Yellow"],
     [name |-> <<"b", "l", "u", "e">>, tag |-> "Blue"],
     [name |-> <<"m", "a", "g", "e", "n", "t", "a">>, tag |-> "Magenta"],
     [name |-> <<"p", "u", "r", "p", "l", "e">>, tag |-> "Magenta"],
     [name |-> <<"c", "y", "a", "n">>, tag |-> "Cyan"],
     [name |-> <<"w", "h", "i", "t", "e">>, tag |-> "White"],
     [name |-> <<"b", "r", "i", "g", "h", "t", " ", "b", "l", "a", "c", "k">>, tag |-> "BrightBlack"],
     [name |-> <<"b", "r", "i", "g", "h", "t", " ", "r", "e", "d">>, tag |-> "BrightRed"],
     [name |-> <<"b", "r", "i", "g", "h", "t", " ", "g", "r", "e", "e", "n">>, tag |-> "BrightGreen"],
     [name |-> <<"b", "r", "i", "g", "h", "t", " ", "y", "e", "l", "l", "o", "w">>, tag |-> "BrightYellow"],
     [name |-> <<"b", "r", "i", "g", "h", "t", " ", "b", "l", "u", "e">>, tag |-> "BrightBlue"],
     [name |-> <<"b", "r", "i", "g", "h", "t", " ", "m", "a", "g", "e", "n", "t", "a">>, tag |-> "BrightMagenta"],
     [name |-> <<"b", "r", "i", "g", "h", "t", " ", "c", "y", "a", "n">>, tag |-> "BrightCyan"],
     [name |-> <<"b", "r", "i", "g", "h", "t", " ", "w", "h", "i", "t", "e">>, tag |-> "BrightWhite"]}

\* texts that are no colour's name
OtherNames ==
    {<<>>,
     <<" ">>,
     <<"i", "n", "v", "a", "l", "i", "d">>,
     <<"b", "l", "o", "u", "b", "l", "o", "u">>,
     <<"b", "l", "u", "e", "e">>,
     <<"b", "l", "u">>,
     <<"b", "r", "i", "g", "h", "t", "b", "l", "u", "e">>,
     <<"b", "r", "i", "g", "h", "t", " ", " ", "b", "l", "u", "e">>,
     <<"b", "r", "i", "g", "h", "t", "_", "b", "l", "u", "e">>,
     <<"l", "i", "g", "h", "t", " ", "b", "l", "u", "e">>,
     <<"b", " ", "l", "u", "e">>,
     <<"#", "0", "0", "0", "0", "f", "f">>,
     <<"3", "4">>}

\* how a caller may write a name: as it is, in capitals, in mixed case
to_uppercase(s) == [i \in 1..Len(s) |-> IF IndexIn(LOWER, s[i]) > 0 THEN UPPER[IndexIn(LOWER, s[i])] ELSE s[i]]
MixedCase(s) == [i \in 1..Len(s) |-> IF i % 2 = 0 THEN to_uppercase(s)[i] ELSE s[i]]
Spellings(s) == {s, to_uppercase(s), MixedCase(s)}

\* the whitespace a caller may leave around a name
Margins == {<<>>, <<" ">>, <<"\t", "\n">>}

NameCalls ==
    UNION {{[NoCalc EXCEPT !.kind = "name", !.s = pre \o w \o post, !.want = n.tag] :
                w \in Spellings(n.name), pre \in Margins, post \in Margins} : n \in ColourNames}
    \cup {[NoCalc EXCEPT !.kind = "name", !.s = pre \o u \o post] :
                u \in OtherNames, pre \in Margins, post \in Margins}

\* digit portions for from_hex: of each length up to MaxHexLen, and of length 6 with one
\* character that is no hex digit at each place
MaxHexLen == 8
HexBody == <<"1", "a", "2", "B", "3", "c", "4", "D", "5", "e">>
NotHexDigits == {"g", "G", "z", "x", " ", "-", "#"}
HexBodies ==
    {SubSeq(HexBody, 1, n) : n \in 0..MaxHexLen}
    \cup {[SubSeq(HexBody, 1, 6) EXCEPT ![i] = ch] : i \in 1..6, ch \in NotHexDigits}
HexPrefixes == {<<>>, <<"#">>, <<"0", "x">>}

HexCalls == {[NoCalc EXCEPT !.kind = "hex", !.s = pre \o body] : pre \in HexPrefixes, body \in HexBodies}

\* the colours the conversions are called on: every named one, and the TrueColors with
\* any byte in one component and the bytes of ByteEdge in the other two
ByteEdge == {0, 10, 255}
Bytes == 0..255
TrueColors ==
    {TrueColor(x, y, z) : x \in Bytes, y \in ByteEdge, z \in ByteEdge}
    \cup {TrueColor(y, x, z) : x \in Bytes, y \in ByteEdge, z \in ByteEdge}
    \cup {TrueColor(y, z, x) : x \in Bytes, y \in ByteEdge, z \in ByteEdge}
AllNamed == {Named(n) : n \in NamedColors}

ColorCalls == {[NoCalc EXCEPT !.kind = "color", !.a = c] : c \in AllNamed \cup TrueColors}

\* two colours, of which one is a named colour or a TrueColor of small components, which
\* are the ones whose foreground texts are nearest to one another
NearColors == {TrueColor(x, y, z) : x \in {0, 3, 30}, y \in {0, 4, 34}, z \in {0, 255}}
PairCalls ==
    {[NoCalc EXCEPT !.kind = "pair", !.a = x, !.b = y] : x \in AllNamed \cup NearColors, y \in AllNamed \cup NearColors}

\* three colours to put in order: the named ones, and TrueColors that are equal to a
\* named colour's RGB value, next to one, or apart from all
OrderColors ==
    AllNamed \cup {TrueColor(0, 0, 255), TrueColor(255, 0, 204), TrueColor(0, 128, 1),
                   TrueColor(34, 33, 0), TrueColor(128, 128, 128)}
TripleCalls ==
    {[NoCalc EXCEPT !.kind = "triple", !.a = x, !.b = y, !.c = z] : x \in OrderColors, y \in OrderColors, z \in OrderColors}

\* the text the colour is put on
ColorFnText == <<"b", "l", "u", "e">>

\* a call is made once, on arguments not used yet
Pending(kind) == calc.op = "none" /\ calc.kind = kind

Apply(new) ==
    /\ calc' = new
    /\ UNCHANGED <<envVars, polVars, seqVars, csVars, renderVars, thrVars>>

\* s.parse::<Color>()
FromStr == Pending("name") /\ Apply([calc EXCEPT !.op = "from_str", !.rcol = from_str(calc.s)])

\* Color::from(s)
FromLenient == Pending("name") /\ Apply([calc EXCEPT !.op = "from", !.rcol = OkColor(Color_from(calc.s))])

\* "blue".color(s)
ColorFn == Pending("name") /\ Apply([calc EXCEPT !.op = "color", !.rcs = str_color(ColorFnText, Color_from(calc.s))])

\* "blue".on_color(s)
OnColorFn == Pending("name") /\ Apply([calc EXCEPT !.op = "on_color", !.rcs = str_on_color(ColorFnText, Color_from(calc.s))])

\* Color::from_hex(s)
FromHex == Pending("hex") /\ Apply([calc EXCEPT !.op = "from_hex", !.rcol = from_hex(calc.s)])

\* Color::from_hex(prefix + &c.to_hex())
ToHexFromHex ==
    \E pre \in HexPrefixes :
        /\ Pending("color")
        /\ Apply([calc EXCEPT !.op = "to_hex", !.s = pre, !.rstr = to_hex(calc.a),
                              !.rcol = from_hex(pre \o to_hex(calc.a))])

\* Color::from_fg_str(&c.to_fg_str())
ToFgFromFg ==
    /\ Pending("color")
    /\ Apply([calc EXCEPT !.op = "to_fg_str", !.rstr = to_fg_str(calc.a), !.rcol = from_fg_str(to_fg_str(calc.a))])

\* c.to_fg_str() and c.to_bg_str()
ToFgToBg ==
    /\ Pending("color")
    /\ Apply([calc EXCEPT !.op = "to_bg_str", !.rstr = to_fg_str(calc.a), !.rstr2 = to_bg_str(calc.a)])

\* a.to_fg_str() and b.to_fg_str()
ToFgPair ==
    /\ Pending("pair")
    /\ Apply([calc EXCEPT !.op = "to_fg_str", !.rstr = to_fg_str(calc.a), !.rstr2 = to_fg_str(calc.b)])

\* a.cmp(&b), b.cmp(&a), b.cmp(&c), a.cmp(&c) and a.partial_cmp(&b)
Cmp ==
    /\ Pending("triple")
    /\ Apply([calc EXCEPT !.op = "cmp",
                          !.rord = [ab |-> cmp(calc.a, calc.b), ba |-> cmp(calc.b, calc.a),
                                    bc |-> cmp(calc.b, calc.c), ac |-> cmp(calc.a, calc.c),
                                    partial |-> partial_cmp(calc.a, calc.b)]])

InitColor ==
    /\ calc \in NameCalls \cup HexCalls \cup ColorCalls \cup PairCalls \cup TripleCalls
    /\ env = PlainEnv
    /\ tty = TRUE
    /\ pol = SHOULD_COLORIZE_new
    /\ initCount = 0
    /\ SequentialIdle
    /\ ComposerIdle
    /\ ThreadsIdle

NextColor ==
    \/ FromStr \/ FromLenient \/ ColorFn \/ OnColorFn
    \/ FromHex
    \/ ToHexFromHex
    \/ ToFgFromFg \/ ToFgToBg \/ ToFgPair
    \/ Cmp

SpecColor == InitColor /\ [][NextColor]_vars

----------------------------------------------------------------------------
(* Formatting with a width and a precision                                 *)

MaxWidth == 12
MaxPrecision == 5

Widths == {NoneUsize} \cup {SomeUsize(w) : w \in {0, 1, 3, MaxWidth}}
Precisions == {NoneUsize} \cup {SomeUsize(n) : n \in 0..MaxPrecision}

\* the texts that are formatted: those of the test, one more that begins as "toto", and
\* two that hold a reset sequence, as a text made from a styled value does
FormatTexts ==
    {<<>>, <<"1">>, <<"t", "o", "t", "o">>, <<"t", "o", "t", "e", "m">>,
     RESET \o <<"b">>, <<"t", "o">> \o RESET \o <<"t", "o">>}

\* the ways the text is styled: not at all, "..".blue(), "..".bold().on_truecolor(0, 128, 255)
Styled(text) ==
    {From(text), str_named(text, "Blue"), on_color(bold(From(text)), TrueColor(0, 128, 255))}

FormatCalls ==
    {[NoCalc EXCEPT !.kind = "format", !.s = t, !.f = Formatter(w, n)] :
        t \in FormatTexts, w \in Widths, n \in Precisions}

\* format!("{:w.p}", value), and format!("{:w.p}", value.to_string())
FormatValue ==
    /\ Pending("format")
    /\ pol' = Deref(pol, env, tty)
    /\ Access
    /\ out' = fmt_Formatter(cs, pol'.v, calc.f)
    /\ calc' = [calc EXCEPT !.op = "format", !.rstr = fmt(cs, pol'.v),
                            !.rstr2 = format_String(fmt(cs, pol'.v), calc.f)]
    /\ ret' = NoneBool
    /\ UNCHANGED <<envVars, lastCall, csVars, phase, thrVars>>

\* format!("{:w.p}", other), other being the text s styled as the value is
FormatOther ==
    /\ calc.op = "format"
    /\ calc' = [calc EXCEPT !.op = "format_other",
                            !.rcs = [cs EXCEPT !.input = calc.s],
                            !.rstr2 = fmt_Formatter([cs EXCEPT !.input = calc.s], pol.v, calc.f)]
    /\ UNCHANGED <<envVars, polVars, seqVars, csVars, renderVars, thrVars>>

\* a styled value and a formatter, in a session with and without a terminal
InitFormat ==
    /\ calc \in FormatCalls
    /\ env = PlainEnv
    /\ tty \in BOOLEAN
    /\ pol = SHOULD_COLORIZE_new
    /\ initCount = 0
    /\ SequentialIdle
    /\ \E text \in FormatTexts :
          /\ cs \in Styled(text)
          /\ hist = [NoHist EXCEPT !.text = text]
    /\ out = <<>>
    /\ phase = "inner"
    /\ ThreadsIdle

NextFormat == FormatValue \/ FormatOther

SpecFormat == InitFormat /\ [][NextFormat]_vars

----------------------------------------------------------------------------
(* Properties of color.rs                                                  *)

\* C12: a colour's name, in any case and with whitespace around it, parses to its
\* variant ("purple" to Magenta), so that color(name) and on_color(name) equal the
\* method of that name; any other text gives White by From and a failure by from_str.
C12_NamedColours ==
    /\ calc.op = "from_str" =>
          IF calc.want # "None" THEN calc.rcol = OkColor(Named(calc.want)) ELSE ~calc.rcol.ok
    /\ calc.op = "from" =>
          calc.rcol = OkColor(Named(IF calc.want # "None" THEN calc.want ELSE "White"))
    /\ (calc.op = "color" /\ calc.want # "None") => calc.rcs = str_named(ColorFnText, calc.want)
    /\ (calc.op = "on_color" /\ calc.want # "None") => calc.rcs = str_on_named(ColorFnText, calc.want)
    /\ (calc.op = "color" /\ calc.want = "None") => calc.rcs = str_named(ColorFnText, "White")

\* "blue".color(" bRiGhT BlUe") is "blue".bright_blue()
C12_Witness ==
    /\ calc.op = "color"
    /\ calc.s = <<" ", "b", "R", "i", "G", "h", "T", " ", "B", "l", "U", "e">>
    /\ calc.rcs = str_named(ColorFnText, "BrightBlue")

\* "bloublou".parse::<Color>() fails, as in color.rs:451-455
C12_WitnessUnknown ==
    /\ calc.op = "from_str"
    /\ calc.s = <<"b", "l", "o", "u", "b", "l", "o", "u">>
    /\ ~calc.rcol.ok

HEXDIGITS == {"0", "1", "2", "3", "4", "5", "6", "7", "8", "9",
              "a", "b", "c", "d", "e", "f", "A", "B", "C", "D", "E", "F"}

\* the input without its '0x' or '#' prefix, if it has one
DigitPortion(s) ==
    IF OccursAt(s, <<"0", "x">>, 0) THEN Skip(s, 2)
    ELSE IF OccursAt(s, <<"#">>, 0) THEN Skip(s, 1)
    ELSE s

\* C13: from_hex fails on every input whose digit portion is not 6 characters long
\* or holds a character that is no hex digit.
C13_FromHexRejects ==
    (calc.op = "from_hex" /\ (\/ Len(DigitPortion(calc.s)) # 6
                              \/ \E i \in 1..Len(DigitPortion(calc.s)) : DigitPortion(calc.s)[i] \notin HEXDIGITS))
        => ~calc.rcol.ok

\* the part of C13 about the length: it holds
C13_LengthChecked ==
    (calc.op = "from_hex" /\ Len(DigitPortion(calc.s)) # 6) => ~calc.rcol.ok

\* C14: to_hex of a TrueColor is 6 lower-case hex digits, and from_hex of it, with no
\* prefix, with '#' and with '0x', gives the TrueColor back.
C14_HexRoundTrip ==
    (calc.op = "to_hex" /\ calc.a.tag = "TrueColor") =>
        /\ Len(calc.rstr) = 6
        /\ \A i \in 1..Len(calc.rstr) : IndexIn(HEXLOWER, calc.rstr[i]) > 0
        /\ calc.rcol = OkColor(calc.a)

\* from_hex("0xffab0a") is TrueColor { r: 255, g: 171, b: 10 }, whose to_hex is "ffab0a"
C14_Witness ==
    /\ calc.op = "to_hex"
    /\ calc.a = TrueColor(255, 171, 10) /\ calc.s = <<"0", "x">>
    /\ calc.rstr = <<"f", "f", "a", "b", "0", "a">>
    /\ calc.rcol = OkColor(TrueColor(255, 171, 10))

\* an error value that says the colour is invalid and holds the input it was made for
InvalidColorError(e, input) == e.kind = "InvalidInput" /\ Contains(e.text, input)

\* C15: every failure of from_hex and of from_str gives the caller an invalid-colour
\* error value that holds the input text.
C15_ErrorsCarryInput ==
    (calc.op \in {"from_hex", "from_str"} /\ ~calc.rcol.ok) => InvalidColorError(calc.rcol.err, calc.s)

\* the part of C15 about from_hex: it holds
C15_FromHexErrors ==
    (calc.op = "from_hex" /\ ~calc.rcol.ok) => InvalidColorError(calc.rcol.err, calc.s)

\* C16: from_fg_str gives back the colour to_fg_str was called on, whatever the colour,
\* and so two colours that differ have foreground texts that differ.
C16_FgRoundTrip ==
    /\ (calc.op = "to_fg_str" /\ calc.kind = "color") => calc.rcol = OkColor(calc.a)
    /\ (calc.op = "to_fg_str" /\ calc.kind = "pair" /\ calc.a # calc.b) => calc.rstr # calc.rstr2

\* TrueColor { r: 200, g: 255, b: 10 } is written "38;2;200;255;10" and read back
C16_Witness ==
    /\ calc.op = "to_fg_str" /\ calc.kind = "color"
    /\ calc.a = TrueColor(200, 255, 10)
    /\ calc.rstr = <<"3", "8", ";", "2", ";", "2", "0", "0", ";", "2", "5", "5", ";", "1", "0">>
    /\ calc.rcol = OkColor(calc.a)

\* two colours that differ, with the foreground texts "38;2;3;4;0" and "34"
C16_WitnessPair ==
    /\ calc.op = "to_fg_str" /\ calc.kind = "pair"
    /\ calc.a = TrueColor(3, 4, 0) /\ calc.b = Named("Blue")
    /\ calc.rstr # calc.rstr2

StandardNames == {"Black", "Red", "Green", "Yellow", "Blue", "Magenta", "Cyan", "White"}

\* C17: a named colour's foreground code is a number of 30..37 when it is a standard one
\* and of 90..97 when it is a bright one, and its background code is that number plus 10;
\* a TrueColor's codes are 38;2;r;g;b and 48;2;r;g;b, alike after the first number.
C17_Codes ==
    calc.op = "to_bg_str" =>
        LET fg == Split(calc.rstr, ";")
            bg == Split(calc.rstr2, ";")
        IN IF calc.a.tag = "TrueColor"
           THEN /\ Len(fg) = 5 /\ Len(bg) = 5
                /\ fg[1] = <<"3", "8">> /\ bg[1] = <<"4", "8">>
                /\ fg[2] = <<"2">>
                /\ fg[3] = ToDec(calc.a.r) /\ fg[4] = ToDec(calc.a.g) /\ fg[5] = ToDec(calc.a.b)
                /\ Tail(fg) = Tail(bg)
           ELSE /\ Len(fg) = 1 /\ Len(bg) = 1
                /\ \A i \in 1..Len(fg[1]) : IndexIn(DIGITS, fg[1][i]) > 0
                /\ \A i \in 1..Len(bg[1]) : IndexIn(DIGITS, bg[1][i]) > 0
                /\ FromDec(fg[1]) \in (IF calc.a.tag \in StandardNames THEN 30..37 ELSE 90..97)
                /\ FromDec(bg[1]) = FromDec(fg[1]) + 10

\* BrightCyan has the codes 96 and 106
C17_Witness ==
    /\ calc.op = "to_bg_str" /\ calc.a = Named("BrightCyan")
    /\ calc.rstr = <<"9", "6">> /\ calc.rstr2 = <<"1", "0", "6">>

\* TrueColor { r: 0, g: 128, b: 255 } has the codes 38;2;0;128;255 and 48;2;0;128;255
C17_WitnessTrueColor ==
    /\ calc.op = "to_bg_str" /\ calc.a = TrueColor(0, 128, 255)
    /\ calc.rstr2 = <<"4", "8", ";", "2", ";", "0", ";", "1", "2", "8", ";", "2", "5", "5">>

\* the RGB value a colour stands for: a TrueColor's own components, a named colour's
\* entry of the reference palette
Rgb(c) == to_hex_array(c)

\* x comes before y in the lexicographic order of RGB triples
LexLess(x, y) ==
    \/ x[1] < y[1]
    \/ x[1] = y[1] /\ x[2] < y[2]
    \/ x[1] = y[1] /\ x[2] = y[2] /\ x[3] < y[3]

Lexicographic(x, y) == IF LexLess(x, y) THEN "Less" ELSE IF LexLess(y, x) THEN "Greater" ELSE "Equal"

Reverse(o) == IF o = "Less" THEN "Greater" ELSE IF o = "Greater" THEN "Less" ELSE o

\* C18: cmp is the lexicographic comparison of the colours' RGB triples, partial_cmp is
\* Some of it, and the order is total (b.cmp(a) is the reverse of a.cmp(b)) and transitive.
C18_Ordering ==
    calc.op = "cmp" =>
        /\ calc.rord.ab = Lexicographic(Rgb(calc.a), Rgb(calc.b))
        /\ calc.rord.partial = [some |-> TRUE, val |-> calc.rord.ab]
        /\ calc.rord.ab \in {"Less", "Equal", "Greater"}
        /\ calc.rord.ba = Reverse(calc.rord.ab)
        /\ (calc.rord.ab # "Greater" /\ calc.rord.bc # "Greater") => calc.rord.ac # "Greater"
        /\ (calc.rord.ab = "Less" /\ calc.rord.bc # "Greater") => calc.rord.ac = "Less"
        /\ (calc.rord.ab # "Greater" /\ calc.rord.bc = "Less") => calc.rord.ac = "Less"
        /\ (calc.rord.ab = "Equal" /\ calc.rord.bc = "Equal") => calc.rord.ac = "Equal"

\* BrightMagenta (255, 0, 205) is after TrueColor { r: 255, g: 0, b: 204 }, which is
\* after BrightGreen (50, 205, 50): the red component decides before the others
C18_Witness ==
    /\ calc.op = "cmp"
    /\ calc.a = Named("BrightGreen") /\ calc.b = TrueColor(255, 0, 204) /\ calc.c = Named("BrightMagenta")
    /\ calc.rord.ab = "Less" /\ calc.rord.bc = "Less" /\ calc.rord.ac = "Less"
    /\ calc.rord.ba = "Greater"

\* Blue and TrueColor { r: 0, g: 0, b: 255 } compare equal
C18_WitnessEqual ==
    /\ calc.op = "cmp"
    /\ calc.a = Named("Blue") /\ calc.b = TrueColor(0, 0, 255)
    /\ calc.rord.ab = "Equal" /\ calc.rord.partial = [some |-> TRUE, val |-> "Equal"]

\* C29: a.cmp(b) is Equal exactly when a == b, and so is a.partial_cmp(b).
C29_EqualOnlyWhenSame ==
    calc.op = "cmp" =>
        /\ calc.rord.ab = "Equal" <=> eq(calc.a, calc.b)
        /\ calc.rord.partial = [some |-> TRUE, val |-> "Equal"] <=> eq(calc.a, calc.b)

----------------------------------------------------------------------------
(* Properties of formatting                                                *)

\* the value is written with escape sequences
Colorized == should_colorize(pol.v) /\ ~is_plain(cs)

Formatted == calc.op \in {"format", "format_other"}

\* the rendering without its style prefix and its trailing reset
Inside(rendered, prefix) == SubSeq(rendered, Len(prefix) + 1, Len(rendered) - Len(RESET))

\* C19: formatting a styled value with a width and a precision gives what formatting
\* its rendered string with them gives.
C19_AsRenderedString == Formatted => out = format_String(calc.rstr, calc.f)

\* C19, as the code has it: the width and the precision are applied to the reset-escaped
\* text alone, and the style prefix and the trailing reset are written around the
\* result; a value written without escape sequences is formatted as its text is.
C19_EscapedTextFormatted ==
    Formatted =>
        IF Colorized
        THEN LET prefix == compute_style(cs, pol.v)
             IN /\ OccursAt(calc.rstr, prefix, 0) /\ EndsWith(calc.rstr, RESET)
                /\ out = prefix \o format_String(Inside(calc.rstr, prefix), calc.f) \o RESET
        ELSE out = format_String(cs.input, calc.f) /\ calc.rstr = cs.input

\* format!("{:3.1}", "toto".blue()) is "\x1B[34mt  \x1B[0m"; format!("{:3.1}", ..) of
\* the rendered string "\x1B[34mtoto\x1B[0m" is "\x1B  "
C19_Witness ==
    /\ Formatted
    /\ cs = str_named(<<"t", "o", "t", "o">>, "Blue")
    /\ calc.f = Formatter(SomeUsize(3), SomeUsize(1))
    /\ out = <<ESC, "[", "3", "4", "m", "t", " ", " ", ESC, "[", "0", "m">>
    /\ calc.rstr = <<ESC, "[", "3", "4", "m", "t", "o", "t", "o", ESC, "[", "0", "m">>
    /\ format_String(calc.rstr, calc.f) = <<ESC, " ", " ">>

\* the first n characters of s
Truncated(s, n) == IF Len(s) > n THEN SubSeq(s, 1, n) ELSE s

BothGiven == calc.f.width.some /\ calc.f.precision.some

\* C20: with a width w and a precision p, the output is that of the value whose text is
\* the first p characters of the text, styled alike and filled to w; two values styled
\* alike whose texts have the same first p characters give outputs of the same length;
\* and the output has w characters at least.
C20_TruncatedBeforeColouring ==
    /\ (Formatted /\ BothGiven) =>
          out = fmt_Formatter([cs EXCEPT !.input = Truncated(cs.input, calc.f.precision.val)], pol.v,
                              Formatter(calc.f.width, NoneUsize))
    /\ (calc.op = "format_other" /\ BothGiven
          /\ Truncated(cs.input, calc.f.precision.val) = Truncated(calc.s, calc.f.precision.val)) =>
          Len(out) = Len(calc.rstr2)
    /\ (Formatted /\ BothGiven) => Len(out) >= calc.f.width.val

\* the parts of C20 that hold: the style prefix and the trailing reset are written whole,
\* outputs of values styled alike whose texts begin alike are as long as one another,
\* and no output is shorter than the width
C20_LengthsAgree ==
    /\ (Formatted /\ BothGiven /\ Colorized) =>
          OccursAt(out, compute_style(cs, pol.v), 0) /\ EndsWith(out, RESET)
    /\ (calc.op = "format_other" /\ BothGiven
          /\ Truncated(cs.input, calc.f.precision.val) = Truncated(calc.s, calc.f.precision.val)) =>
          Len(out) = Len(calc.rstr2)
    /\ (Formatted /\ BothGiven) => Len(out) >= calc.f.width.val

\* the first part of C20 holds of every text that holds no reset sequence
C20_TruncatedWhenNoReset ==
    (Formatted /\ BothGiven /\ ~Contains(cs.input, RESET)) =>
        out = fmt_Formatter([cs EXCEPT !.input = Truncated(cs.input, calc.f.precision.val)], pol.v,
                            Formatter(calc.f.width, NoneUsize))

\* format!("{:1.5}", "\x1B[0mb".blue()) is "\x1B[34m" "\x1B[0m" "\x1B" "\x1B[0m": the text
\* is cut after its reset sequence was escaped, inside the escape sequence put there
C20_CutInsideEscape ==
    /\ Formatted /\ calc.f = Formatter(SomeUsize(1), SomeUsize(5))
    /\ cs = str_named(RESET \o <<"b">>, "Blue")
    /\ out = <<ESC, "[", "3", "4", "m">> \o RESET \o <<ESC>> \o RESET

\* the test's case: "toto".blue() and "1".blue() under "{:1.1}" give outputs of 10 characters
C20_TestCase ==
    /\ calc.op = "format_other" /\ calc.f = Formatter(SomeUsize(1), SomeUsize(1))
    /\ cs = str_named(<<"t", "o", "t", "o">>, "Blue") /\ calc.s = <<"1">>
    /\ Len(out) = 10 /\ Len(calc.rstr2) = 10

====
